---- MODULE Spec2Model ----
(***************************************************************************)
(* Verification model of the vphone-cli firmware patchers                  *)
(* (scripts/patchers/kernel_jb.py, txm_jb.py, iboot_jb.py, cfw.py).        *)
(*                                                                         *)
(* Offsets are file offsets in bytes.  A 32-bit instruction word is kept   *)
(* as the pair [op, imm] of its top 6 bits and its low 26 bits, because    *)
(* the checker's integers are 32-bit signed and 0x94000000 does not fit.   *)
(***************************************************************************)
EXTENDS Integers, Sequences, FiniteSets, TLC

VARIABLES enc, xr, dy, pt, dr, fx

vars == <<enc, xr, dy, pt, dr, fx>>

\* value of a sub-model's variable while another specification runs
Idle == [phase |-> "idle"]

\* Python's None / a value: the empty and the one-element sequence
None == <<>>

Some(v) == <<v>>

The(opt) == opt[1]

----------------------------------------------------------------------------
(* Branch encoding helpers: kernel_jb.py _encode_b / _encode_bl            *)

Pow2_25 == 33554432
Pow2_26 == 67108864

OpB == 5
OpBL == 37

\* delta & 0x3FFFFFF on Python's unbounded two's-complement integers
Mask26(delta) == delta % Pow2_26

\* The sign extension the code uses when it decodes a B (imm26 & (1 << 25))
SignExtend26(imm26) == IF imm26 >= Pow2_25 THEN imm26 - Pow2_26 ELSE imm26

EncodeBranchWrapped(op, from_off, to_off) ==
    Some([op |-> op, imm |-> Mask26((to_off - from_off) \div 4)])

EncodeBranch(op, from_off, to_off) ==
    LET delta == (to_off - from_off) \div 4
    IN IF delta < -Pow2_25 \/ delta >= Pow2_25
       THEN None
       ELSE Some([op |-> op, imm |-> Mask26(delta)])

_encode_b(from_off, to_off) == EncodeBranch(OpB, from_off, to_off)

_encode_bl(from_off, to_off) == EncodeBranch(OpBL, from_off, to_off)

\* The shape every caller has: "b = _encode_b(..); if b: emit(off, b)"
BranchPatches(off, word) ==
    IF word = None THEN <<>> ELSE << <<off, <<The(word)>> >> >>

EncSpan == 2

\* word indexes around 0, 2^25 and 2^26, so that deltas sit on both range ends
EncWordIdx ==
    (0 .. EncSpan) \cup ((Pow2_25 - EncSpan) .. (Pow2_25 + EncSpan))
                   \cup ((Pow2_26 - EncSpan) .. Pow2_26)

EncOffsets == { 4 * k : k \in EncWordIdx }

EncInit ==
    /\ xr = Idle
    /\ pt = Idle
    /\ dy = Idle
    /\ dr = Idle /\ fx = Idle
    /\ enc \in [ from : EncOffsets, to : EncOffsets, kind : {"b", "bl"},
              res : {None}, registered : {<<>>}, phase : {"input"} ]

\* the call _encode_b(from, to) / _encode_bl(from, to)
EncCall ==
    /\ enc.phase = "input"
    /\ enc' = [enc EXCEPT
                 !.res = IF enc.kind = "b" THEN _encode_b(enc.from, enc.to)
                                          ELSE _encode_bl(enc.from, enc.to),
                 !.phase = "encoded"]
    /\ UNCHANGED <<xr, dy, pt, dr, fx>>

\* the caller's use of the result
EncCallerEmit ==
    /\ enc.phase = "encoded"
    /\ enc' = [enc EXCEPT !.registered = BranchPatches(enc.from, enc.res),
                          !.phase = "done"]
    /\ UNCHANGED <<xr, dy, pt, dr, fx>>

EncNext == EncCall \/ EncCallerEmit

SpecEncode == EncInit /\ [][EncNext]_vars

----------------------------------------------------------------------------
\* C6: _encode_b/_encode_bl return None exactly when the word displacement is
\* outside [-2^25, 2^25 - 1]; otherwise the word has the B/BL opcode and its
\* sign-extended imm26 times 4 plus from equals to; a caller that got None
\* registers no branch patch.
C6_BranchRangeChecked ==
    enc.phase # "input" =>
      LET d == (enc.to - enc.from) \div 4
          inRange == d >= -Pow2_25 /\ d <= Pow2_25 - 1
      IN /\ (enc.res = None) <=> ~inRange
         /\ enc.res # None =>
              /\ The(enc.res).op = (IF enc.kind = "b" THEN OpB ELSE OpBL)
              /\ The(enc.res).imm \in 0 .. (Pow2_26 - 1)
              /\ enc.from + 4 * SignExtend26(The(enc.res).imm) = enc.to
         /\ (enc.phase = "done" /\ enc.res = None) => enc.registered = <<>>
         /\ (enc.phase = "done" /\ enc.res # None) =>
              enc.registered = << <<enc.from, <<The(enc.res)>> >> >>

C6_Witness ==
    /\ enc.phase = "done"
    /\ enc.res = None
    /\ (enc.to - enc.from) \div 4 = Pow2_25
    /\ enc.registered = <<>>

----------------------------------------------------------------------------
(* Cross-reference resolvers: cfw.py _find_adrp_add_ref,                   *)
(* txm_jb.py _find_refs_to_offset.  A code buffer is a sequence of decoded *)
(* instructions, one per 4 bytes: mn is "adrp" (rd, imm = page address),   *)
(* "add" (rd, rn, imm), "other", or "bad" (the disassembler returns        *)
(* nothing).                                                               *)

PageSize == 4096

XrWindow == 8

Insn(mn, rd, rn, imm) == [mn |-> mn, rd |-> rd, rn |-> rn, imm |-> imm]

\* the "for off in range(0, len(code) - 4, 4)" loop of _find_adrp_add_ref,
\* from instruction index idx (0-based) with the ADRP cache built so far;
\* adrp_cache maps a register to <<insn_va, page, idx>>
RECURSIVE FindAdrpAddFrom(_, _, _, _, _)
FindAdrpAddFrom(code, base_va, target_va, idx, adrp_cache) ==
    LET target_page == (target_va \div PageSize) * PageSize
        target_pageoff == target_va % PageSize
        insn == code[idx + 1]
    IN IF 4 * idx >= 4 * Len(code) - 4
       THEN -1
       ELSE IF insn.mn = "bad"
       THEN FindAdrpAddFrom(code, base_va, target_va, idx + 1, adrp_cache)
       ELSE IF insn.mn = "adrp"
       THEN FindAdrpAddFrom(code, base_va, target_va, idx + 1,
               [r \in DOMAIN adrp_cache \cup {insn.rd} |->
                   IF r = insn.rd THEN <<base_va + 4 * idx, insn.imm, idx>>
                                  ELSE adrp_cache[r]])
       ELSE IF /\ insn.mn = "add"
               /\ insn.rn \in DOMAIN adrp_cache
               /\ adrp_cache[insn.rn][2] = target_page
               /\ insn.imm = target_pageoff
               /\ idx - adrp_cache[insn.rn][3] <= XrWindow
       THEN adrp_cache[insn.rn][1]
       ELSE FindAdrpAddFrom(code, base_va, target_va, idx + 1, adrp_cache)

_find_adrp_add_ref(code, base_va, target_va) ==
    FindAdrpAddFrom(code, base_va, target_va, 0, <<>>)

\* TXMJBPatcher._find_refs_to_offset: "for off in range(0, self.size - 8, 4)"
\* over the instruction at off and the one at off + 4
TxmRefOffsets(raw, target_off) ==
    { off \in { 4 * i : i \in 0 .. Len(raw) } :
        /\ off < 4 * Len(raw) - 8
        /\ LET a == raw[off \div 4 + 1]
               b == raw[off \div 4 + 2]
           IN /\ a.mn # "bad" /\ b.mn # "bad"
              /\ a.mn = "adrp" /\ b.mn = "add"
              /\ a.rd = b.rn
              /\ a.imm + b.imm = target_off }

\* the list refs, in scan order, as the set of its (adrp, add) offset pairs
_find_refs_to_offset(raw, target_off) ==
    { <<off, off + 4>> : off \in TxmRefOffsets(raw, target_off) }

XrMaxInsns == 11
XrMaxGap == 9

XrRegR == "x0"
XrRegOther == "x1"
XrTargetPage == 2 * PageSize
XrTargetPageOff == 3 * 8

XrFillers ==
    { Insn("other", "", "", 0),
      Insn("bad", "", "", 0),
      Insn("adrp", XrRegOther, "", XrTargetPage + PageSize),
      Insn("add", XrRegOther, XrRegR, XrTargetPageOff + 8) }

\* n instructions: the ADRP into R at index p, the ADD reading R at p + k,
\* the filler everywhere else (0-based indexes)
XrCode(n, p, k, filler) ==
    [i \in 1 .. n |->
       IF i = p + 1 THEN Insn("adrp", XrRegR, "", XrTargetPage)
       ELSE IF i = p + k + 1 THEN Insn("add", XrRegOther, XrRegR, XrTargetPageOff)
       ELSE filler]

XrInit ==
    /\ enc = Idle
    /\ pt = Idle
    /\ dy = Idle
    /\ dr = Idle /\ fx = Idle
    /\ \E n \in 2 .. XrMaxInsns, p \in 0 .. XrMaxInsns, k \in 1 .. XrMaxGap,
          filler \in XrFillers, base \in {0, 4 * PageSize} :
         /\ p + k <= n - 1
         /\ xr = [phase |-> "input", code |-> XrCode(n, p, k, filler),
                  base |-> base, target |-> XrTargetPage + XrTargetPageOff,
                  p |-> p, k |-> k, cfwDone |-> FALSE, cfw |-> -1,
                  txmDone |-> FALSE, txm |-> {}]

\* cfw.py: ref_off = _find_adrp_add_ref(code, text_va, str_start_va)
XrFindAdrpAddRef ==
    /\ xr.phase = "input" /\ ~xr.cfwDone
    /\ xr' = [xr EXCEPT !.cfwDone = TRUE,
                        !.cfw = _find_adrp_add_ref(xr.code, xr.base, xr.target)]
    /\ UNCHANGED <<enc, dy, pt, dr, fx>>

\* txm_jb.py: self._find_refs_to_offset(s_off)
XrFindRefsToOffset ==
    /\ xr.phase = "input" /\ ~xr.txmDone
    /\ xr' = [xr EXCEPT !.txmDone = TRUE,
                        !.txm = _find_refs_to_offset(xr.code, xr.target)]
    /\ UNCHANGED <<enc, dy, pt, dr, fx>>

XrNext == XrFindAdrpAddRef \/ XrFindRefsToOffset

SpecXref == XrInit /\ [][XrNext]_vars

----------------------------------------------------------------------------
\* C7: with an ADRP into R at index p and an ADD reading R k instructions
\* later that sum to the target (no other resolving pair), _find_adrp_add_ref
\* returns the ADRP's address for every k in 1..8 wherever the pair sits, and
\* -1 for k = 9.
C7_XrefWindowBoundary ==
    xr.cfwDone =>
      /\ xr.k <= XrWindow => xr.cfw = xr.base + 4 * xr.p
      /\ xr.k = XrWindow + 1 => xr.cfw = -1

\* C8: _find_refs_to_offset reports every ADRP/ADD pair that materialises the
\* target, also when other instructions sit between the ADRP and the ADD.
C8_RefsReportEveryPair ==
    xr.txmDone =>
      \E r \in xr.txm : r[1] = 4 * xr.p /\ r[2] = 4 * (xr.p + xr.k)

----------------------------------------------------------------------------
(* Dylib injection: cfw.py section 5.  A buffer is the file length and its *)
(* slices; a slice is its base offset, the mach_header_64 fields magic,    *)
(* ncmds, sizeofcmds, and the load commands found at their offsets         *)
(* (relative to the slice base).  A command is cmd (the hexadecimal value  *)
(* as a string), cmdsize, the dylib name offset, the bytes from the name   *)
(* offset to the end of the command, and a segment's sections.  Bytes of   *)
(* the header area that hold no command are zero; zeroed lists the byte    *)
(* ranges the program zeroed.                                              *)

MH_MAGIC_64 == "0xFEEDFACF"

LC_SEGMENT_64 == "0x19"
LC_CODE_SIGNATURE == "0x1D"
LC_LOAD_DYLIB == "0xC"

\* LC_LOAD_DYLIB, LC_LOAD_WEAK_DYLIB, LC_LAZY_LOAD_DYLIB, LC_REEXPORT_DYLIB,
\* LC_LOAD_UPWARD_DYLIB
DylibCmds == {"0xC", "0xD", "0x18", "0x1F", "0x80000018"}

MachHeaderSize == 32
DylibCmdHeader == 24
MaxOverflow == 256

_align(n, alignment) == ((n + alignment - 1) \div alignment) * alignment

Zeros(n) == [i \in 1 .. n |-> 0]

LoadCmd(cmd, cmdsize, name_offset, tail, sects) ==
    [cmd |-> cmd, cmdsize |-> cmdsize, name_offset |-> name_offset,
     tail |-> tail, sects |-> sects]

\* what struct.unpack_from reads where the header area holds zero bytes
ZeroCmd == LoadCmd("0x0", 0, 0, <<>>, <<>>)

CmdAt(sl, off) == IF off \in DOMAIN sl.at THEN sl.at[off] ELSE ZeroCmd

\* the offsets visited by "for _ in range(ncmds): ...; offset += cmdsize"
RECURSIVE WalkFrom(_, _, _)
WalkFrom(sl, off, left) ==
    IF left <= 0 THEN <<>>
    ELSE <<off>> \o WalkFrom(sl, off + CmdAt(sl, off).cmdsize, left - 1)

WalkCmds(sl) == WalkFrom(sl, MachHeaderSize, sl.ncmds)

\* data[start : data.index(0, start)]: the bytes before the first zero byte
UpToNul(bytes) ==
    LET nul == { i \in 1 .. Len(bytes) : bytes[i] = 0 }
    IN IF nul = {} THEN bytes
       ELSE SubSeq(bytes, 1, (CHOOSE i \in nul : \A j \in nul : i <= j) - 1)

RECURSIVE MinFileOff(_, _)
MinFileOff(sects, earliest) ==
    IF sects = <<>> THEN earliest
    ELSE MinFileOff(Tail(sects),
            IF /\ Head(sects).file_off > 0 /\ Head(sects).size > 0
               /\ Head(sects).file_off < earliest
            THEN Head(sects).file_off ELSE earliest)

RECURSIVE EarliestFrom(_, _, _)
EarliestFrom(sl, offs, earliest) ==
    IF offs = <<>> THEN earliest
    ELSE EarliestFrom(sl, Tail(offs),
            IF CmdAt(sl, Head(offs)).cmd = LC_SEGMENT_64
            THEN MinFileOff(CmdAt(sl, Head(offs)).sects, earliest)
            ELSE earliest)

\* _find_first_section_offset(data[base:]); len(data[base:]) = flen - base
_find_first_section_offset(sl, flen) ==
    IF sl.magic # MH_MAGIC_64 THEN -1
    ELSE EarliestFrom(sl, WalkCmds(sl), flen - sl.base)

DeclaresIn(sl, offs, kinds, dylib_path) ==
    \E i \in 1 .. Len(offs) :
       /\ CmdAt(sl, offs[i]).cmd \in kinds
       /\ UpToNul(CmdAt(sl, offs[i]).tail) = dylib_path

CheckExistingLoadOnly(sl, dylib_path) ==
    /\ sl.magic = MH_MAGIC_64
    /\ DeclaresIn(sl, WalkCmds(sl), {LC_LOAD_DYLIB}, dylib_path)

_check_existing_dylib(sl, dylib_path) ==
    /\ sl.magic = MH_MAGIC_64
    /\ DeclaresIn(sl, WalkCmds(sl), DylibCmds, dylib_path)

\* lines 860-871 of _strip_codesig, for the last command walked
StripLast(sl, last_offset, last) ==
    IF last.cmd # LC_CODE_SIGNATURE THEN <<sl, 0>>
    ELSE << [sl EXCEPT
               !.at = [o \in DOMAIN sl.at \ {last_offset} |-> sl.at[o]],
               !.zeroed = sl.zeroed \cup {<<last_offset, last.cmdsize>>},
               !.ncmds = sl.ncmds - 1,
               !.sizeofcmds = sl.sizeofcmds - last.cmdsize],
            last.cmdsize >>

StripWalked(sl, offs) ==
    IF offs = <<>> THEN StripLast(sl, -1, ZeroCmd)
    ELSE StripLast(sl, offs[Len(offs)], CmdAt(sl, offs[Len(offs)]))

\* _strip_codesig: <<slice after, cmdsize freed>>
_strip_codesig(sl) == StripWalked(sl, WalkCmds(sl))

\* the dylib_command bytes built at lines 895-906
DylibCmdOf(name_bytes, cmd_size) ==
    LoadCmd(LC_LOAD_DYLIB, cmd_size, DylibCmdHeader,
            name_bytes \o Zeros(cmd_size - DylibCmdHeader - Len(name_bytes)),
            <<>>)

NewDylibCmd(dylib_path) ==
    DylibCmdOf(dylib_path \o <<0>>,
               _align(DylibCmdHeader + Len(dylib_path) + 1, 8))

\* data[header_end : header_end + cmd_size] = lc_data, then the header update
WriteDylibCmd(sl, header_end, lc) ==
    [sl EXCEPT
       !.at = (header_end :> lc) @@ sl.at,
       !.ncmds = sl.ncmds + 1,
       !.sizeofcmds = sl.sizeofcmds + lc.cmdsize]

TooMuchOverflowOffByOne(overflow) == overflow >= MaxOverflow

TooMuchOverflow(overflow) == overflow > MaxOverflow

\* lines 930-946: the overflow ceiling, then the write.  The result is
\* [ok, sl (the slice after), wrote_to (end of the bytes written, relative
\* to the slice base)]
InjectWrite(sl, header_end, available, lc) ==
    IF available < lc.cmdsize /\ TooMuchOverflow(lc.cmdsize - available)
    THEN [ok |-> FALSE, sl |-> sl, wrote_to |-> 0]
    ELSE [ok |-> TRUE, sl |-> WriteDylibCmd(sl, header_end, lc),
          wrote_to |-> header_end + lc.cmdsize]

\* lines 923-928: after _strip_codesig returned <<slice, freed>>
InjectAfterStrip(stripped, first_section, header_end, available, lc) ==
    IF stripped[2] > 0
    THEN InjectWrite(stripped[1], MachHeaderSize + stripped[1].sizeofcmds,
                     first_section - (MachHeaderSize + stripped[1].sizeofcmds),
                     lc)
    ELSE InjectWrite(stripped[1], header_end, available, lc)

\* lines 909-922: the space check that decides whether to strip
InjectReclaim(sl, first_section, header_end, lc) ==
    IF first_section < 0 THEN [ok |-> FALSE, sl |-> sl, wrote_to |-> 0]
    ELSE IF first_section - header_end < lc.cmdsize
    THEN InjectAfterStrip(_strip_codesig(sl), first_section, header_end,
                          first_section - header_end, lc)
    ELSE InjectWrite(sl, header_end, first_section - header_end, lc)

_inject_lc_load_dylib(sl, flen, dylib_path) ==
    IF sl.magic # MH_MAGIC_64 THEN [ok |-> FALSE, sl |-> sl, wrote_to |-> 0]
    ELSE InjectReclaim(sl, _find_first_section_offset(sl, flen),
                       MachHeaderSize + sl.sizeofcmds, NewDylibCmd(dylib_path))

\* the buffer after slice i was handled with result r; a write past the end
\* of the bytearray extends it
DataAfterSlice(data, i, r) ==
    [data EXCEPT
       !.slices[i] = r.sl,
       !.flen = IF data.slices[i].base + r.wrote_to > data.flen
                THEN data.slices[i].base + r.wrote_to ELSE data.flen]

\* the "for slice_off, slice_size in slices" loop of inject_dylib from slice
\* i on: [data, injected, out]; out is the line printed for each slice
RECURSIVE InjectSlices(_, _, _, _, _)
InjectedSlice(data, i, injected, out, dylib_path, r) ==
    InjectSlices(DataAfterSlice(data, i, r), i + 1,
                 IF r.ok THEN injected + 1 ELSE injected,
                 Append(out, IF r.ok THEN "injected" ELSE "failed"),
                 dylib_path)

InjectSlices(data, i, injected, out, dylib_path) ==
    IF i > Len(data.slices)
    THEN [data |-> data, injected |-> injected, out |-> out]
    ELSE IF _check_existing_dylib(data.slices[i], dylib_path)
    THEN InjectSlices(data, i + 1, injected + 1, Append(out, "skipping"),
                      dylib_path)
    ELSE InjectedSlice(data, i, injected, out, dylib_path,
            _inject_lc_load_dylib(data.slices[i], data.flen, dylib_path))

\* the buffer written back whatever the count
InjectFinishAlways(disk, r) ==
    [ret |-> r.injected = Len(disk.slices), disk |-> r.data, data |-> r.data,
     out |-> r.out]

\* lines 968-974: the file is written only when every slice counted
InjectFinish(disk, r) ==
    IF r.injected = Len(disk.slices)
    THEN [ret |-> TRUE, disk |-> r.data, data |-> r.data, out |-> r.out]
    ELSE [ret |-> FALSE, disk |-> disk, data |-> r.data, out |-> r.out]

\* inject_dylib(filepath, dylib_path): [ret, disk (the file afterwards),
\* data (the in-memory buffer at the end), out]
inject_dylib(disk, dylib_path) ==
    InjectFinish(disk, InjectSlices(disk, 1, 0, <<>>, dylib_path))

DyMaxRuns == 2
DyMaxSlices == 2

SegCmdSize == 72
SectSize == 80
\* sizeof(linkedit_data_command); the slice alignment of a fat file
CodeSigCmdSize == 2 * 8
FatAlign == 4 * 1024

DyPath(len) == [i \in 1 .. len |-> 97 + (i % 3)]

\* path lengths giving cmd_size 32, 256, 264 and 280
DyPathLens == {3, 231, 232, 248}

DyPads == {0, 7, 8, 15, 16, 23, 24, 32, 264, 280}

ExistingDylib(kind, name) == [NewDylibCmd(name) EXCEPT !.cmd = kind]

\* a segment with a zerofill section, a later section and the first section
SegCmd(fsec) ==
    LoadCmd(LC_SEGMENT_64, SegCmdSize + 3 * SectSize, 0, <<>>,
            << [file_off |-> 0, size |-> 64],
               [file_off |-> fsec + 256, size |-> 128],
               [file_off |-> fsec, size |-> 256] >>)

CodeSigCmd == LoadCmd(LC_CODE_SIGNATURE, CodeSigCmdSize, 0, <<>>, <<>>)

RECURSIVE SumCmdSize(_)
SumCmdSize(cmds) ==
    IF cmds = <<>> THEN 0 ELSE Head(cmds).cmdsize + SumCmdSize(Tail(cmds))

RECURSIVE PlaceCmds(_, _)
PlaceCmds(cmds, off) ==
    IF cmds = <<>> THEN <<>>
    ELSE (off :> Head(cmds)) @@ PlaceCmds(Tail(cmds), off + Head(cmds).cmdsize)

\* the commands after the segment command
DyOtherCmds(other, target, codesig, path) ==
    (IF other = "prefix"
       THEN <<ExistingDylib(LC_LOAD_DYLIB, SubSeq(path, 1, Len(path) - 1))>>
     ELSE IF other = "longer"
       THEN <<ExistingDylib(LC_LOAD_DYLIB, path \o <<98>>)>>
     ELSE <<>>)
    \o (IF codesig = "notlast" THEN <<CodeSigCmd>> ELSE <<>>)
    \o (IF target = "none" THEN <<>> ELSE <<ExistingDylib(target, path)>>)
    \o (IF codesig = "last" THEN <<CodeSigCmd>> ELSE <<>>)

MachOWith(base, rest, pad) ==
    LET sizeofcmds == SegCmdSize + 3 * SectSize + SumCmdSize(rest)
        fsec == MachHeaderSize + sizeofcmds + pad
    IN [base |-> base, size |-> fsec + 512, magic |-> MH_MAGIC_64,
        ncmds |-> Len(rest) + 1, sizeofcmds |-> sizeofcmds,
        at |-> PlaceCmds(<<SegCmd(fsec)>> \o rest, MachHeaderSize),
        zeroed |-> {}]

\* a 64-bit Mach-O slice whose first section data starts pad bytes after
\* the load commands
DyMachO(base, other, target, codesig, pad, path) ==
    CHOOSE sl \in { MachOWith(base, rest, pad) :
                      rest \in {DyOtherCmds(other, target, codesig, path)} } :
       TRUE

\* a 64-bit Mach-O whose sections have no file data (zerofill only): the
\* file ends pad bytes after the load commands
DyNoSectionData(base, pad) ==
    [base |-> base,
     size |-> MachHeaderSize + SegCmdSize + 3 * SectSize + pad,
     magic |-> MH_MAGIC_64, ncmds |-> 1,
     sizeofcmds |-> SegCmdSize + 3 * SectSize,
     at |-> (MachHeaderSize :>
               LoadCmd(LC_SEGMENT_64, SegCmdSize + 3 * SectSize, 0, <<>>,
                       << [file_off |-> 0, size |-> 64],
                          [file_off |-> 0, size |-> 128],
                          [file_off |-> 0, size |-> 0] >>)),
     zeroed |-> {}]

\* a slice that is no 64-bit Mach-O (a 32-bit slice): opaque to the program
DyNotMachO64(base) ==
    [base |-> base, size |-> FatAlign, magic |-> "0xFEEDFACE", ncmds |-> 0,
     sizeofcmds |-> 0, at |-> <<>>, zeroed |-> {}]

\* every command layout for the short path, the layouts that decide the
\* space reclaim for the long ones
DyThinFiles(path) ==
    { [fat |-> FALSE, flen |-> sl.size, slices |-> <<sl>>] :
        sl \in { DyMachO(0, other, target, codesig, pad, path) :
                   other \in IF Len(path) < 8 THEN {"none", "prefix", "longer"}
                                              ELSE {"none"},
                   target \in IF Len(path) < 8 THEN {"none"} \cup DylibCmds
                                               ELSE {"none", "0x18"},
                   codesig \in {"none", "last", "notlast"},
                   pad \in DyPads }
               \cup {DyNotMachO64(0)}
               \cup { DyNoSectionData(0, pad) : pad \in {0, 32, 512} } }

DyFatSliceKinds == {"bad", "has", "fits", "tight"}

DyFatSlice(kind, base, path) ==
    IF kind = "bad" THEN DyNotMachO64(base)
    ELSE IF kind = "has" THEN DyMachO(base, "none", "0xD", "last", 0, path)
    ELSE IF kind = "fits" THEN DyMachO(base, "none", "none", "last", 280, path)
    ELSE DyMachO(base, "none", "none", "last", 7, path)

DyFatFiles(path) ==
    { [fat |-> TRUE, flen |-> FatAlign * (Len(kinds) + 1),
       slices |-> [i \in 1 .. Len(kinds) |->
                     DyFatSlice(kinds[i], FatAlign * i, path)]] :
        kinds \in UNION { [1 .. m -> DyFatSliceKinds] : m \in 2 .. DyMaxSlices } }

DyInit ==
    /\ enc = Idle
    /\ pt = Idle
    /\ xr = Idle
    /\ dr = Idle /\ fx = Idle
    /\ \E len \in DyPathLens :
         \E path \in {DyPath(len)} :
            \E f \in DyThinFiles(path) \cup
                     (IF len < 8 THEN DyFatFiles(path) ELSE {}) :
               dy = [phase |-> "ready", path |-> path, disk |-> f,
                     hist |-> <<>>]

\* one call inject_dylib(filepath, dylib_path) on the file as it is on disk
DyInjectDylib ==
    /\ dy.phase = "ready"
    /\ Len(dy.hist) < DyMaxRuns
    /\ \E r \in {inject_dylib(dy.disk, dy.path)} :
         dy' = [dy EXCEPT
                  !.disk = r.disk,
                  !.hist = Append(dy.hist,
                             [before |-> dy.disk, ret |-> r.ret,
                              disk |-> r.disk, data |-> r.data,
                              out |-> r.out])]
    /\ UNCHANGED <<enc, xr, pt, dr, fx>>

DyNext == DyInjectDylib

SpecDylib == DyInit /\ [][DyNext]_vars

----------------------------------------------------------------------------
\* a slice has a dylib load command of one of the five kinds naming path
SliceDeclares(sl, path) ==
    /\ sl.magic = MH_MAGIC_64
    /\ \E o \in DOMAIN sl.at :
          /\ sl.at[o].cmd \in {"0xC", "0xD", "0x18", "0x1F", "0x80000018"}
          /\ \E n \in 1 .. Len(sl.at[o].tail) :
                /\ sl.at[o].tail[n] = 0
                /\ SubSeq(sl.at[o].tail, 1, n - 1) = path
                /\ \A m \in 1 .. n - 1 : sl.at[o].tail[m] # 0

AllDeclare(file, path) ==
    \A i \in 1 .. Len(file.slices) : SliceDeclares(file.slices[i], path)

NeedSize(path) == ((24 + Len(path) + 1 + 7) \div 8) * 8

\* the start of the first section data; the end of the slice when no
\* section has data in the file
FirstSectionOf(sl) ==
    IF \A o \in DOMAIN sl.at : \A j \in 1 .. Len(sl.at[o].sects) :
          sl.at[o].sects[j].file_off = 0
    THEN sl.size
    ELSE CHOOSE f \in { s.file_off : s \in UNION { {sl.at[o].sects[j] :
                        j \in 1 .. Len(sl.at[o].sects)} : o \in DOMAIN sl.at } } :
       /\ f > 0
       /\ \A o \in DOMAIN sl.at : \A j \in 1 .. Len(sl.at[o].sects) :
             sl.at[o].sects[j].file_off > 0 => f <= sl.at[o].sects[j].file_off

PaddingOf(sl) == FirstSectionOf(sl) - (32 + sl.sizeofcmds)

LastCmdOffset(sl) == CHOOSE o \in DOMAIN sl.at : \A q \in DOMAIN sl.at : q <= o

TrailingCodesig(sl) == sl.at[LastCmdOffset(sl)].cmd = "0x1D"

Fits(sl, path) == PaddingOf(sl) >= NeedSize(path)

\* the padding once a trailing code signature gave its bytes back
ReclaimedOf(sl, path) ==
    IF ~Fits(sl, path) /\ TrailingCodesig(sl)
    THEN PaddingOf(sl) + sl.at[LastCmdOffset(sl)].cmdsize
    ELSE PaddingOf(sl)

CodesigCmds(sl) == { o \in DOMAIN sl.at : sl.at[o].cmd = "0x1D" }

\* the calls of _inject_lc_load_dylib on 64-bit slices in run n
InjectCalls(n) ==
    { i \in 1 .. Len(dy.hist[n].before.slices) :
        /\ dy.hist[n].before.slices[i].magic = MH_MAGIC_64
        /\ dy.hist[n].out[i] # "skipping" }

\* C10: for a call of _inject_lc_load_dylib on a 64-bit slice: when the
\* padding holds the command every LC_CODE_SIGNATURE stays; a code signature
\* is zeroed only when the padding does not hold the command, and then exactly
\* when it is the last command; the written command reaches into section data
\* only when the reclaimed padding is still too small; the call fails exactly
\* when the overflow left is above 256, and then no command is added and
\* ncmds and sizeofcmds are not above their values before.
C10_ReclaimOrderAndCeiling ==
    \A n \in 1 .. Len(dy.hist) : \A i \in InjectCalls(n) :
       /\ Fits(dy.hist[n].before.slices[i], dy.path) =>
             /\ dy.hist[n].out[i] = "injected"
             /\ dy.hist[n].data.slices[i].zeroed = {}
             /\ \A o \in CodesigCmds(dy.hist[n].before.slices[i]) :
                   /\ o \in DOMAIN dy.hist[n].data.slices[i].at
                   /\ dy.hist[n].data.slices[i].at[o].cmd = "0x1D"
       /\ (dy.hist[n].data.slices[i].zeroed # {}) <=>
             /\ ~Fits(dy.hist[n].before.slices[i], dy.path)
             /\ TrailingCodesig(dy.hist[n].before.slices[i])
       /\ dy.hist[n].data.slices[i].zeroed \subseteq
             { <<LastCmdOffset(dy.hist[n].before.slices[i]),
                 dy.hist[n].before.slices[i].at[
                    LastCmdOffset(dy.hist[n].before.slices[i])].cmdsize>> }
       /\ (dy.hist[n].out[i] = "failed") <=>
             (NeedSize(dy.path)
                - ReclaimedOf(dy.hist[n].before.slices[i], dy.path) > 256)
       /\ dy.hist[n].out[i] = "failed" =>
             /\ ~SliceDeclares(dy.hist[n].data.slices[i], dy.path)
             /\ dy.hist[n].data.slices[i].ncmds
                   <= dy.hist[n].before.slices[i].ncmds
             /\ dy.hist[n].data.slices[i].sizeofcmds
                   <= dy.hist[n].before.slices[i].sizeofcmds
       /\ dy.hist[n].out[i] = "injected" =>
             /\ SliceDeclares(dy.hist[n].data.slices[i], dy.path)
             /\ dy.hist[n].data.slices[i].sizeofcmds + 32
                   > FirstSectionOf(dy.hist[n].before.slices[i]) =>
                  ReclaimedOf(dy.hist[n].before.slices[i], dy.path)
                     < NeedSize(dy.path)

\* a trailing code signature was stripped and the command then overflowed
\* the section data by exactly 256 bytes, and was accepted
C10_Witness ==
    /\ Len(dy.hist) >= 1
    /\ 1 \in InjectCalls(1)
    /\ TrailingCodesig(dy.hist[1].before.slices[1])
    /\ NeedSize(dy.path) - ReclaimedOf(dy.hist[1].before.slices[1], dy.path)
          = 256
    /\ dy.hist[1].data.slices[1].zeroed # {}
    /\ dy.hist[1].out[1] = "injected"
    /\ dy.hist[1].ret

----------------------------------------------------------------------------
(* The patchers: kernel_jb.py KernelJBPatcher, txm_jb.py TXMJBPatcher,     *)
(* iboot_jb.py IBootJBPatcher.  A patcher st has the image img (raw, the   *)
(* immutable snapshot, and what the base class found in it), data (the     *)
(* working buffer: its length and the words that differ from raw, by       *)
(* offset) and patches.  A word is an Insn named by what the scanners read *)
(* in it.  log (one entry per rule run) and caves (the spans returned by   *)
(* _find_code_cave) record the run.                                        *)

W(mn) == Insn(mn, "", "", 0)

SetMin(S) == CHOOSE m \in S : \A x \in S : m <= x

SetMax(S) == CHOOSE m \in S : \A x \in S : m >= x

\* the element of a set of one
Only(S) == CHOOSE x \in S : TRUE

\* words written at p, the buffer growing when they pass its end
WriteAt(data, p, words) ==
    [len |-> IF p + 4 * Len(words) > data.len THEN p + 4 * Len(words)
                                              ELSE data.len,
     ov |-> [o \in {p + 4 * (i - 1) : i \in 1 .. Len(words)} |->
               words[(o - p) \div 4 + 1]] @@ data.ov]

\* self.data[off : off + len(patch_bytes)] = patch_bytes on a bytearray: a
\* slice that starts past the end is the empty slice at the end
SliceAssign(data, off, words) ==
    WriteAt(data, IF off > data.len THEN data.len ELSE off, words)

\* emit(off, patch_bytes, desc) of the base classes: the patch is recorded
\* and written through to the working buffer
emit(st, off, words) ==
    [st EXCEPT !.patches = Append(@, [off |-> off, words |-> words]),
               !.data = SliceAssign(@, off, words)]

\* the slice assignments of patches[lo .. hi], in order
RECURSIVE WriteRange(_, _, _, _)
WriteRange(data, patches, lo, hi) ==
    IF lo > hi THEN data
    ELSE IF lo = hi THEN SliceAssign(data, patches[lo].off, patches[lo].words)
    ELSE Only({ WriteRange(left, patches, (lo + hi) \div 2 + 1, hi) :
                  left \in {WriteRange(data, patches, lo, (lo + hi) \div 2)} })

\* one emit for each [off, words] of a list, in order
EmitAll(st, list) ==
    [st EXCEPT !.patches = @ \o list,
               !.data = WriteRange(@, list, 1, Len(list))]

\* "for i, part in enumerate(parts): self.emit(off + i * 4, part, ...)"
EmitParts(st, off, parts) ==
    EmitAll(st, [i \in 1 .. Len(parts) |->
                   [off |-> off + (i - 1) * 4, words |-> <<parts[i]>>]])

\* "b = self._encode_b(..); if b: self.emit(off, b, ..)"
BranchWord(word) ==
    Insn(IF The(word).op = OpB THEN "b" ELSE "bl", "enc", "", The(word).imm)

EmitBranch(st, off, word) ==
    IF BranchPatches(off, word) = <<>> THEN st
    ELSE emit(st, off, <<BranchWord(word)>>)

\* what a rule hands back: the patcher after it and its return value
Ret(st, ok) == [st |-> st, ret |-> ok]

RawWord(img, off) ==
    IF off \in DOMAIN img.words THEN img.words[off]
    ELSE IF \E f \in img.fill : off >= f[1] /\ off < f[2]
    THEN W((CHOOSE f \in img.fill : off >= f[1] /\ off < f[2])[3])
    ELSE W(img.default)

\* _rd32(self.data, off)
DataWord(st, off) ==
    IF off \in DOMAIN st.data.ov THEN st.data.ov[off]
    ELSE RawWord(st.img, off)

\* 0x00000000, 0xFFFFFFFF, 0xD4200000
Filler == {"zero", "ones", "brk0"}

\* the starts of filler runs, whatever their length
CaveRunsAnyLength(st, rng, needed, starts) ==
    { o \in starts :
        /\ o >= rng[1] /\ (o - rng[1]) % 4 = 0
        /\ o + needed - 4 < rng[2]
        /\ o = rng[1] \/ DataWord(st, o - 4).mn \notin Filler
        /\ DataWord(st, o).mn \in Filler }

\* the starts of the runs of filler words of one code range that reach
\* needed bytes; a run starts at the range start or after a non-filler word
CaveRuns(st, rng, needed, starts) ==
    { o \in starts :
        /\ o >= rng[1] /\ (o - rng[1]) % 4 = 0
        /\ o + needed - 4 < rng[2]
        /\ o = rng[1] \/ DataWord(st, o - 4).mn \notin Filler
        /\ \A j \in 0 .. (needed \div 4 - 1) :
              DataWord(st, o + 4 * j).mn \in Filler }

\* the first offset, in scan order, of the first range that has one
FirstHit(hits) ==
    IF \A i \in DOMAIN hits : hits[i] = {} THEN -1
    ELSE SetMin(hits[SetMin({i \in DOMAIN hits : hits[i] # {}})])

_find_code_cave(st, size) ==
    FirstHit([i \in 1 .. Len(st.img.code_ranges) |->
       CaveRuns(st, st.img.code_ranges[i], ((size + 4 - 1) \div 4) * 4,
                {st.img.code_ranges[k][1] : k \in 1 .. Len(st.img.code_ranges)}
                  \cup {f[1] : f \in st.img.fill}
                  \cup DOMAIN st.data.ov \cup {o + 4 : o \in DOMAIN st.data.ov}
                  \cup DOMAIN st.img.words
                  \cup {o + 4 : o \in DOMAIN st.img.words})])

\* the span a rule got from _find_code_cave, kept for the record with the
\* number of patches emitted before
NoteCave(st, rule, cave, size) ==
    [st EXCEPT !.caves = Append(@, [rule |-> rule, off |-> cave, size |-> size,
                                    at |-> Len(st.patches)])]

\* the offsets of range(start, end, 4) where the raw word is one of mns
RawSites(img, start, end, mns) ==
    { o \in DOMAIN img.words :
        /\ o >= start /\ o < end /\ (o - start) % 4 = 0
        /\ img.words[o].mn \in mns }

FirstOr(sites, limit) == IF sites = {} THEN limit ELSE SetMin(sites)

\* KernelJBPatcher._find_func_end: the next PACIBSP or the limit
_find_func_end(img, func_start, max_size) ==
    FirstOr(RawSites(img, func_start + 4,
                     IF func_start + max_size < img.size
                     THEN func_start + max_size ELSE img.size, {"pacibsp"}),
            IF func_start + max_size < img.size
            THEN func_start + max_size ELSE img.size)

_resolve_symbol(img, name) ==
    IF name \in DOMAIN img.symbols THEN img.symbols[name] ELSE -1

\* a function offset: the symbol, else what the rule's string-anchored
\* search of the image arrives at (-1 when it finds nothing)
FuncOff(img, name) ==
    IF _resolve_symbol(img, name) >= 0 THEN _resolve_symbol(img, name)
    ELSE IF name \in DOMAIN img.anchors THEN img.anchors[name] ELSE -1

\* the mov x0,#0 patches at the sites of a set, in ascending order
RECURSIVE SitePatches(_, _, _)
SitePatches(sites, delta, word) ==
    IF sites = {} THEN <<>>
    ELSE <<[off |-> SetMin(sites) + delta, words |-> <<word>>]>>
         \o SitePatches(sites \ {SetMin(sites)}, delta, word)

\* lines 406-411 of patch_amfi_execve_kill_path
AmfiFuncEnd(img, func_start) ==
    FirstOr(RawSites(img, func_start + 4,
                     IF func_start + 2048 < img.kern_text[2]
                     THEN func_start + 2048 ELSE img.kern_text[2], {"pacibsp"}),
            IF func_start + 2048 < img.kern_text[2]
            THEN func_start + 2048 ELSE img.kern_text[2])

\* lines 413-424: hits, for a function that ends at func_end
AmfiHits(img, func_start, func_end) ==
    { o \in RawSites(img, func_start,
                     (IF func_start + 288 < func_end
                      THEN func_start + 288 ELSE func_end) - 4, {"bl"}) :
        /\ RawWord(img, o + 4).mn \in {"cbz", "cbnz"}
        /\ RawWord(img, o + 4).rd = "w0" }

\* lines 398-438; funcs are the indexes of refs whose function has two hits
AmfiPatch(st, funcs) ==
    IF funcs = {} THEN Ret(st, FALSE)
    ELSE Ret(EmitAll(st, SitePatches(
                AmfiHits(st.img, st.img.amfi_refs[SetMin(funcs)],
                         AmfiFuncEnd(st.img, st.img.amfi_refs[SetMin(funcs)])),
                0, Insn("mov", "x0", "#0", 0))), TRUE)

\* img.amfi_refs: find_function_start(adrp_off) for each ref to the log
\* string, in order; empty when the string or its refs are not found
patch_amfi_execve_kill_path(st) ==
    AmfiPatch(st, { i \in 1 .. Len(st.img.amfi_refs) :
        /\ st.img.amfi_refs[i] >= 0
        /\ Cardinality(AmfiHits(st.img, st.img.amfi_refs[i],
                          AmfiFuncEnd(st.img, st.img.amfi_refs[i]))) = 2 })

\* a rule of group A or B other than patch_amfi_execve_kill_path: it emits
\* at the sites its matcher finds (img.simple[name]) and returns True, or
\* finds none, emits nothing and returns False
SimpleRule(st, name) ==
    IF st.img.simple[name] = <<>> THEN Ret(st, FALSE)
    ELSE Ret(EmitAll(st, st.img.simple[name]), TRUE)

\* 0xD65F0FFF, 0xD65F0BFF, 0xD65F03C0
RetWords == {"retab", "retaa", "ret"}

CredShellcode == [i \in 1 .. 8 |-> Insn("sc", "cred_label_update_execve", "", i - 1)]

\* lines 1722-1736
CredWrite(st, cave, ret_off) ==
    Ret(EmitBranch(EmitParts(st, cave, CredShellcode),
                   ret_off, _encode_b(ret_off, cave)),
        _encode_b(ret_off, cave) # None)

\* lines 1692-1720; rets are the return instructions of the function
CredAt(st, cave, rets) ==
    IF cave < 0 THEN Ret(st, FALSE)
    ELSE IF rets = {}
    THEN Ret(NoteCave(st, "patch_cred_label_update_execve", cave, 32), FALSE)
    ELSE CredWrite(NoteCave(st, "patch_cred_label_update_execve", cave, 32),
                   cave, SetMax(rets))

patch_cred_label_update_execve(st) ==
    IF FuncOff(st.img, "_cred_label_update_execve") < 0 THEN Ret(st, FALSE)
    ELSE CredAt(st, _find_code_cave(st, 32),
                RawSites(st.img,
                         FuncOff(st.img, "_cred_label_update_execve") + 4,
                         _find_func_end(st.img,
                            FuncOff(st.img, "_cred_label_update_execve"), 512),
                         RetWords))

\* shellcode_parts: ten 0xFFFFFFFF mask words, then the code
SyscallmaskShellcode(zalloc_bl, filter_b) ==
    [i \in 1 .. 38 |->
       IF i <= 10 THEN W("ones")
       ELSE IF i = 28 + 1 THEN zalloc_bl
       ELSE IF i = 37 + 1 THEN filter_b
       ELSE Insn("sc", "syscallmask_apply_to_proc", "", i - 1)]

\* lines 1879-1895; bls are the BL instructions of the scanned window
SyscallmaskRedirect(st, cave, bls) ==
    IF bls = {} THEN Ret(st, FALSE)
    ELSE Ret(EmitBranch(emit(st, SetMin(bls) - 4, <<Insn("mov", "x17", "x0", 0)>>),
                        SetMin(bls), _encode_b(SetMin(bls), cave + 10 * 4)),
             TRUE)

\* lines 1813-1877
SyscallmaskAt(st, func_off, cave, zalloc_bl, filter_b) ==
    IF cave < 0 THEN Ret(st, FALSE)
    ELSE IF zalloc_bl = None \/ filter_b = None
    THEN Ret(NoteCave(st, "patch_syscallmask_apply_to_proc", cave, 160), FALSE)
    ELSE SyscallmaskRedirect(
            EmitParts(NoteCave(st, "patch_syscallmask_apply_to_proc", cave, 160),
                      cave,
                      SyscallmaskShellcode(BranchWord(zalloc_bl),
                                           BranchWord(filter_b))),
            cave,
            RawSites(st.img, func_off,
                     IF func_off + 256 < _find_func_end(st.img, func_off, 512)
                     THEN func_off + 256
                     ELSE _find_func_end(st.img, func_off, 512), {"bl"}))

SyscallmaskWith(st, func_off, zalloc_off, filter_off, cave) ==
    SyscallmaskAt(st, func_off, cave,
                  _encode_bl(cave + 28 * 4, zalloc_off),
                  _encode_b(cave + 37 * 4, filter_off))

patch_syscallmask_apply_to_proc(st) ==
    IF \/ FuncOff(st.img, "_syscallmask_apply_to_proc") < 0
       \/ FuncOff(st.img, "_zalloc_ro_mut") < 0
       \/ FuncOff(st.img, "_proc_set_syscall_filter_mask") < 0
    THEN Ret(st, FALSE)
    ELSE SyscallmaskWith(st, FuncOff(st.img, "_syscallmask_apply_to_proc"),
                         FuncOff(st.img, "_zalloc_ro_mut"),
                         FuncOff(st.img, "_proc_set_syscall_filter_mask"),
                         _find_code_cave(st, 160))

HookShellcode(vnode_bl, b_back) ==
    [i \in 1 .. 45 |->
       IF i = 17 + 1 THEN vnode_bl
       ELSE IF i = 44 + 1 THEN b_back
       ELSE IF i \in {0 + 1, 16 + 1, 43 + 1} THEN W("nop")
       ELSE Insn("sc", "hook_cred_label_update_execve", "", i - 1)]

\* lines 1937-1948: the size of the function behind each of the first 30
\* ops entries, 0 for an entry that is skipped
HookSizes(img) ==
    [idx \in 0 .. 29 |->
       IF /\ img.ops[idx] > 0
          /\ \E k \in 1 .. Len(img.code_ranges) :
                /\ img.code_ranges[k][1] <= img.ops[idx]
                /\ img.ops[idx] < img.code_ranges[k][2]
       THEN _find_func_end(img, img.ops[idx], 8192) - img.ops[idx]
       ELSE 0]

\* cave & 0xFFFFFFFF, by 16-bit halves
Lo32(v) == (v % 65536) + 65536 * ((v \div 65536) % 65536)

\* an entry rewritten to the cave's offset as a plain 64-bit value
HookSlotPlain(img, entry_off, cave) ==
    <<Insn("ptr.lo", "", "", Lo32(cave)), Insn("ptr.hi", "", "", 0)>>

\* lines 2044-2047: struct.pack("<Q", (orig_raw & 0xFFFFFFFF00000000)
\* | (cave & 0xFFFFFFFF)), as its low and its high word
HookSlot(img, entry_off, cave) ==
    <<Insn("ptr.lo", "", "", Lo32(cave)), RawWord(img, entry_off + 4)>>

\* lines 1958-2052
HookWrite(st, cave, hook_index, vnode_bl, b_back) ==
    IF cave < 0 THEN Ret(st, FALSE)
    ELSE IF vnode_bl = None \/ b_back = None
    THEN Ret(NoteCave(st, "patch_hook_cred_label_update_execve", cave, 180),
             FALSE)
    ELSE Ret(emit(EmitParts(NoteCave(st, "patch_hook_cred_label_update_execve",
                                     cave, 180),
                            cave,
                            HookShellcode(BranchWord(vnode_bl),
                                          BranchWord(b_back))),
                  st.img.ops_table + hook_index * 8,
                  HookSlot(st.img, st.img.ops_table + hook_index * 8, cave)),
             TRUE)

HookAt(st, vnode_getattr_off, hook_index, cave) ==
    HookWrite(st, cave, hook_index,
              _encode_bl(cave + 17 * 4, vnode_getattr_off),
              _encode_b(cave + 44 * 4, st.img.ops[hook_index]))

\* lines 1950-1959; best_size is the largest size
HookEntry(st, vnode_getattr_off, sizes, best_size) ==
    IF best_size < 1000 THEN Ret(st, FALSE)
    ELSE HookAt(st, vnode_getattr_off,
                SetMin({idx \in DOMAIN sizes : sizes[idx] = best_size}),
                _find_code_cave(st, 180))

\* img.ops_table: _find_sandbox_ops_table_via_conf(), -1 for None
patch_hook_cred_label_update_execve(st) ==
    IF FuncOff(st.img, "_vnode_getattr") < 0 THEN Ret(st, FALSE)
    ELSE IF st.img.ops_table < 0 THEN Ret(st, FALSE)
    ELSE HookEntry(st, FuncOff(st.img, "_vnode_getattr"), HookSizes(st.img),
                   SetMax({HookSizes(st.img)[idx] : idx \in 0 .. 29}))

\* mov w0, #0x4e; ret, also behind a PACIBSP
_find_nosys(img) ==
    FirstHit([i \in 1 .. Len(img.code_ranges) |->
       { o \in RawSites(img, img.code_ranges[i][1],
                        img.code_ranges[i][2] - 4, {"mov", "pacibsp"}) :
           \/ /\ RawWord(img, o) = Insn("mov", "w0", "#0x4e", 0)
              /\ RawWord(img, o + 4).mn = "ret"
           \/ /\ RawWord(img, o).mn = "pacibsp"
              /\ RawWord(img, o + 4) = Insn("mov", "w0", "#0x4e", 0)
              /\ RawWord(img, o + 8).mn = "ret" }])

\* lines 2080-2097: the first 8-byte slot of a DATA segment that decodes to
\* nosys_off and whose neighbour 24 bytes on decodes into code
FindSysent(img, nosys_off) ==
    FirstHit([i \in 1 .. Len(img.data_segs) |->
       { o \in RawSites(img, img.data_segs[i][1],
                        img.data_segs[i][1] + img.data_segs[i][2] - 24,
                        {"ptr"}) :
           /\ (o - img.data_segs[i][1]) % 8 = 0
           /\ img.words[o].imm = nosys_off
           /\ RawWord(img, o + 24).mn = "ptr"
           /\ RawWord(img, o + 24).imm > 0
           /\ \E k \in 1 .. Len(img.code_ranges) :
                 /\ img.code_ranges[k][1] <= RawWord(img, o + 24).imm
                 /\ RawWord(img, o + 24).imm < img.code_ranges[k][2] }])

Kcall10Shellcode ==
    [i \in 1 .. 32 |->
       IF i \in {22 + 1, 31 + 1} THEN W("nop")
       ELSE Insn("sc", "kcall10", "", i - 1)]

\* lines 2154-2170: the writes to sysent[439]
SysentPatches(entry_439, cave, munge_off) ==
    <<[off |-> entry_439,
       words |-> <<Insn("va.lo", "", "", cave), W("va.hi")>>]>>
    \o (IF munge_off >= 0
        THEN <<[off |-> entry_439 + 8,
                words |-> <<Insn("va.lo", "", "", munge_off), W("va.hi")>>]>>
        ELSE <<>>)
    \o <<[off |-> entry_439 + 16, words |-> <<Insn("u32", "", "", 7)>>],
         [off |-> entry_439 + 20, words |-> <<Insn("u32", "", "", 2097160)>>]>>

\* lines 2099-2172
Kcall10At(st, sysent_off, cave, munge_off) ==
    IF sysent_off < 0 THEN Ret(st, FALSE)
    ELSE IF cave < 0 THEN Ret(st, FALSE)
    ELSE Ret(EmitAll(EmitParts(NoteCave(st, "patch_kcall10", cave, 128),
                               cave, Kcall10Shellcode),
                     SysentPatches(sysent_off + 439 * 24, cave, munge_off)),
             TRUE)

Kcall10With(st, nosys_off) ==
    IF nosys_off < 0 THEN Ret(st, FALSE)
    ELSE Kcall10At(st, FindSysent(st.img, nosys_off), _find_code_cave(st, 128),
                   _resolve_symbol(st.img, "_munge_wwwwwwww"))

patch_kcall10(st) ==
    Kcall10With(st, IF _resolve_symbol(st.img, "_nosys") >= 0
                    THEN _resolve_symbol(st.img, "_nosys")
                    ELSE _find_nosys(st.img))

\* _disasm_one(self.raw, off) on a TXM or iBoot image, whose raw is the
\* sequence of its words; "bad" stands for no instruction
At(img, off) ==
    IF off >= 0 /\ off % 4 = 0 /\ off \div 4 + 1 <= Len(img.raw)
    THEN img.raw[off \div 4 + 1] ELSE W("bad")

\* the offsets of range(start, end, 4)
Range4(start, end) ==
    { start + 4 * i : i \in 0 .. ((end - start + 3) \div 4 - 1) }

\* the sites of patch_selector24_hashcmp_calls: mov w2,#0x14; bl; cbz w0
HashcmpSites(img) ==
    { off \in Range4(0, img.size - 8) :
        /\ At(img, off).mn = "mov"
        /\ At(img, off).rd = "w2" /\ At(img, off).rn = "#0x14"
        /\ At(img, off + 4).mn = "bl"
        /\ At(img, off + 8).mn = "cbz" /\ At(img, off + 8).rd = "w0" }

\* every site is emitted while scanning, the count is looked at afterwards
patch_selector24_hashcmp_calls(st) ==
    Ret(EmitAll(st, SitePatches(HashcmpSites(st.img), 4,
                                Insn("mov", "x0", "#0", 0))),
        /\ ~(Cardinality(HashcmpSites(st.img)) > 3)
        /\ ~(Cardinality(HashcmpSites(st.img)) = 0))

\* locs of patch_selector24_a1_path
A1Sites(img) ==
    { scan \in Range4(0, img.size - 4) :
        /\ At(img, scan).mn = "mov"
        /\ At(img, scan).rd = "w0" /\ At(img, scan).rn = "#0xa1"
        /\ At(img, scan - 12).mn = "b.lo"
        /\ At(img, scan - 4).mn = "cbz" /\ At(img, scan - 4).rd = "x9" }

patch_selector24_a1_path(st) ==
    IF Cardinality(A1Sites(st.img)) # 1 THEN Ret(st, FALSE)
    ELSE Ret(emit(emit(st, SetMin(A1Sites(st.img)) - 12, <<W("nop")>>),
                  SetMin(A1Sites(st.img)) - 4, <<W("nop")>>), TRUE)

\* the list refs as the set of its (s_off, adrp_off, add_off) entries; an
\* ADRP has one target, so no adrp_off comes twice
_find_string_refs(img, needle) ==
    UNION { { <<s_off, r[1], r[2]>> : r \in _find_refs_to_offset(img.raw, s_off) } :
            s_off \in IF needle \in DOMAIN img.strings THEN img.strings[needle]
                                                      ELSE {} }

\* the entries (ref, scan) of the scan windows of a list of refs: for each
\* ref the offsets of [r[3] + lo, r[3] + hi) below limit.  A list cands is
\* the set of the entries where the rule's pattern holds.
Windows(refs, lo, hi, limit) ==
    UNION { { <<r, scan>> :
                scan \in { x \in Range4(r[3] + lo,
                                        IF r[3] + hi < limit THEN r[3] + hi
                                                             ELSE limit) :
                           x > 0 } } : r \in refs }

\* "if len(cands) != 1: return False", else the one site is patched
ForceOne(st, cands, word) ==
    IF Cardinality(cands) # 1 THEN Ret(st, FALSE)
    ELSE Ret(emit(st, (CHOOSE c \in cands : TRUE)[2], <<word>>), TRUE)

\* bl; tbnz w0, #0, ...
GetTaskAllowSite(img, scan) ==
    /\ At(img, scan).mn = "bl"
    /\ At(img, scan + 4).mn = "tbnz"
    /\ At(img, scan + 4).rd = "w0" /\ At(img, scan + 4).rn = "#0"

\* cands of patch_get_task_allow_force_true
GetTaskAllowCands(img) ==
    { c \in Windows(_find_string_refs(img, "get-task-allow"),
                    0, 32, img.size - 4) : GetTaskAllowSite(img, c[2]) }

patch_get_task_allow_force_true(st) ==
    ForceOne(st, GetTaskAllowCands(st.img), Insn("mov", "x0", "#1", 0))

\* mov x0, #0; mov x2, #0; bl; tbnz w0, #0, ...
DebuggerSite(img, scan) ==
    /\ GetTaskAllowSite(img, scan)
    /\ At(img, scan - 4).mn = "mov"
    /\ At(img, scan - 4).rd = "x2" /\ At(img, scan - 4).rn = "#0"
    /\ At(img, scan - 8).mn = "mov"
    /\ At(img, scan - 8).rd = "x0" /\ At(img, scan - 8).rn = "#0"

\* cands of patch_debugger_entitlement_force_true (limit: size - 4) and the
\* sites of _find_debugger_gate_func_start (limit: size - 8)
DebuggerCands(img, limit) ==
    { c \in Windows(_find_string_refs(img, "com.apple.private.cs.debugger"),
                    0, 32, limit) : DebuggerSite(img, c[2]) }

patch_debugger_entitlement_force_true(st) ==
    ForceOne(st, DebuggerCands(st.img, st.img.size - 4),
             Insn("mov", "w0", "#1", 0))

\* tbz/tbnz/cbz/cbnz w9, #0, ...
DeveloperModeGuard(img, back) ==
    /\ At(img, back).mn \in {"tbz", "tbnz", "cbz", "cbnz"}
    /\ At(img, back).rd = "w9" /\ At(img, back).rn = "#0"

\* cands of patch_developer_mode_bypass, over
\* range(add_off - 4, max(add_off - 0x20, 0), -4)
DeveloperModeCands(img) ==
    { c \in Windows(_find_string_refs(img,
                       "developer mode enabled due to system policy configuration"),
                    -28, 0, img.size) : DeveloperModeGuard(img, c[2]) }

patch_developer_mode_bypass(st) ==
    ForceOne(st, DeveloperModeCands(st.img), W("nop"))

\* TXMJBPatcher._find_func_start: the nearest PACIBSP at or before off
_find_func_start(img, off) ==
    IF { scan \in Range4(IF off - 4096 > 0 THEN off - 4096 ELSE 0, off + 4) :
           At(img, scan).mn = "pacibsp" } = {}
    THEN -1
    ELSE SetMax({ scan \in Range4(IF off - 4096 > 0 THEN off - 4096 ELSE 0,
                                  off + 4) : At(img, scan).mn = "pacibsp" })

\* starts of _find_debugger_gate_func_start
DebuggerGateStarts(img) ==
    { _find_func_start(img, c[2]) : c \in DebuggerCands(img, img.size - 8) }
      \ {-1}

_find_debugger_gate_func_start(img) ==
    IF Cardinality(DebuggerGateStarts(img)) # 1 THEN -1
    ELSE SetMin(DebuggerGateStarts(img))

\* stubs of patch_selector42_29_shellcode
Selector42Stubs(img, fn) ==
    { off \in Range4(4, img.size - 24) :
        /\ At(img, off - 4).mn = "bti" /\ At(img, off - 4).rd = "j"
        /\ At(img, off) = Insn("mov", "x0", "x20", 0)
        /\ At(img, off + 4).mn = "bl"
        /\ At(img, off + 8) = Insn("mov", "x1", "x21", 0)
        /\ At(img, off + 12) = Insn("mov", "x2", "x22", 0)
        /\ At(img, off + 16).mn = "bl" /\ At(img, off + 20).mn = "b"
        /\ At(img, off + 16).imm = fn }

\* the starts of the runs of zero words inside [start, end) that are at
\* least need bytes long
UdfRuns(img, need, start, end) ==
    { o \in Range4(start, end) :
        /\ At(img, o).mn = "zero"
        /\ o = start \/ At(img, o - 4).mn # "zero"
        /\ \A j \in 0 .. (need \div 4 - 1) :
              o + 4 * j < end /\ At(img, o + 4 * j).mn = "zero" }

\* the first run behind a branch, else, where the zero word disassembles
\* (img.udf_decodes: the disassembler in use reads it as udf #0), the first
\* of the runs nearest to near_off
NearestCave(img, runs, near_off) ==
    IF { o \in runs : At(img, o - 4).mn \in
           {"b", "b.eq", "b.ne", "b.lo", "b.hs", "cbz", "cbnz", "tbz", "tbnz"} }
       # {}
    THEN SetMin({ o \in runs : At(img, o - 4).mn \in
           {"b", "b.eq", "b.ne", "b.lo", "b.hs", "cbz", "cbnz", "tbz", "tbnz"} })
    ELSE IF runs = {} \/ ~img.udf_decodes THEN -1
    ELSE SetMin({ o \in runs : \A x \in runs :
           (IF o > near_off THEN o - near_off ELSE near_off - o)
             <= (IF x > near_off THEN x - near_off ELSE near_off - x) })

\* _find_udf_cave(min_insns, near_off), -1 for None
_find_udf_cave(img, min_insns, near_off) ==
    NearestCave(img,
                UdfRuns(img, min_insns * 4,
                        IF near_off - 4096 > 0 THEN near_off - 4096 ELSE 0,
                        IF img.size < near_off + 524288 THEN img.size
                        ELSE near_off + 524288),
                near_off)

\* lines 266-279
Selector42Write(st, stub_off, cave) ==
    IF cave < 0 THEN Ret(st, FALSE)
    ELSE Ret(EmitAll(st,
          <<[off |-> stub_off, words |-> <<Insn("b", "asm", "", cave)>>],
            [off |-> cave, words |-> <<W("nop")>>],
            [off |-> cave + 4, words |-> <<Insn("mov", "x0", "#1", 0)>>],
            [off |-> cave + 8, words |-> <<Insn("strb", "w0", "[x20, #0x30]", 0)>>],
            [off |-> cave + 12, words |-> <<Insn("mov", "x0", "x20", 0)>>],
            [off |-> cave + 16,
             words |-> <<Insn("b", "asm", "", stub_off + 4)>>]>>), TRUE)

\* the redirect of the first stub, however many there are
Selector42WithFirst(st, stubs) ==
    IF stubs = {} THEN Ret(st, FALSE)
    ELSE Selector42Write(st, SetMin(stubs),
                         _find_udf_cave(st.img, 6, SetMin(stubs)))

Selector42With(st, stubs) ==
    IF Cardinality(stubs) # 1 THEN Ret(st, FALSE)
    ELSE Selector42Write(st, SetMin(stubs),
                         _find_udf_cave(st.img, 6, SetMin(stubs)))

patch_selector42_29_shellcode(st) ==
    IF _find_debugger_gate_func_start(st.img) < 0 THEN Ret(st, FALSE)
    ELSE Selector42With(st,
            Selector42Stubs(st.img, _find_debugger_gate_func_start(st.img)))

\* tbz/tbnz w0, #0, target; mov w0, #0; bl
NonceSite(img, scan) ==
    /\ At(img, scan).mn \in {"tbz", "tbnz"}
    /\ At(img, scan).rd = "w0" /\ At(img, scan).rn = "#0"
    /\ At(img, scan + 4) = Insn("mov", "w0", "#0", 0)
    /\ At(img, scan + 8).mn = "bl"

\* the entries of cands that belong to the first ref, in list order (by
\* string offset, then by ADRP offset), that has an entry
FirstRefCands(cands) ==
    { c \in cands : \A d \in cands :
        \/ c[1][1] < d[1][1]
        \/ c[1][1] = d[1][1] /\ c[1][2] <= d[1][2] }

\* the first site of the first ref that has one becomes "b target"
NonceFirst(st, sites) ==
    IF sites = {} THEN Ret(st, FALSE)
    ELSE Ret(emit(st, SetMin(sites),
                  <<Insn("b", "asm", "", At(st.img, SetMin(sites)).imm)>>),
             TRUE)

\* IBootJBPatcher._find_string_refs gives (adrp, add, reg) for the same
\* pairs, in the same order
patch_skip_generate_nonce(st) ==
    NonceFirst(st, { c[2] : c \in FirstRefCands(
                       { d \in Windows(_find_string_refs(st.img, "boot-nonce"),
                                       0, 256, st.img.size - 12) :
                           NonceSite(st.img, d[2]) }) })

\* the rules of KernelJBPatcher.find_all, in the order of the calls
KernelRules ==
    << "patch_amfi_cdhash_in_trustcache", "patch_amfi_execve_kill_path",
       "patch_task_conversion_eval_internal", "patch_sandbox_hooks_extended",
       "patch_post_validation_additional", "patch_proc_security_policy",
       "patch_proc_pidinfo", "patch_convert_port_to_map",
       "patch_vm_fault_enter_prepare", "patch_vm_map_protect",
       "patch_mac_mount", "patch_dounmount", "patch_bsd_init_auth",
       "patch_spawn_validate_persona", "patch_task_for_pid",
       "patch_load_dylinker", "patch_shared_region_map",
       "patch_nvram_verify_permission", "patch_io_secure_bsd_root",
       "patch_thid_should_crash", "patch_cred_label_update_execve",
       "patch_syscallmask_apply_to_proc",
       "patch_hook_cred_label_update_execve", "patch_kcall10" >>

\* the rules of TXMJBPatcher.find_all, in the order of the calls
TxmRules ==
    << "patch_selector24_hashcmp_calls", "patch_selector24_a1_path",
       "patch_get_task_allow_force_true", "patch_selector42_29_shellcode",
       "patch_debugger_entitlement_force_true", "patch_developer_mode_bypass" >>

\* IBootJBPatcher.apply: 'if self.mode == "ibss"'
IBootRules(img) ==
    IF img.mode = "ibss" THEN << "patch_skip_generate_nonce" >> ELSE << >>

Rules(st) ==
    IF st.kind = "kernel" THEN KernelRules
    ELSE IF st.kind = "txm" THEN TxmRules
    ELSE IBootRules(st.img)

\* self.<name>()
RunRule(name, st) ==
    CASE name = "patch_amfi_execve_kill_path" -> patch_amfi_execve_kill_path(st)
      [] name = "patch_cred_label_update_execve" ->
            patch_cred_label_update_execve(st)
      [] name = "patch_syscallmask_apply_to_proc" ->
            patch_syscallmask_apply_to_proc(st)
      [] name = "patch_hook_cred_label_update_execve" ->
            patch_hook_cred_label_update_execve(st)
      [] name = "patch_kcall10" -> patch_kcall10(st)
      [] name = "patch_selector24_hashcmp_calls" ->
            patch_selector24_hashcmp_calls(st)
      [] name = "patch_selector24_a1_path" -> patch_selector24_a1_path(st)
      [] name = "patch_get_task_allow_force_true" ->
            patch_get_task_allow_force_true(st)
      [] name = "patch_selector42_29_shellcode" ->
            patch_selector42_29_shellcode(st)
      [] name = "patch_debugger_entitlement_force_true" ->
            patch_debugger_entitlement_force_true(st)
      [] name = "patch_developer_mode_bypass" -> patch_developer_mode_bypass(st)
      [] name = "patch_skip_generate_nonce" -> patch_skip_generate_nonce(st)
      [] OTHER -> SimpleRule(st, name)

\* the record of one rule run: what it returned (the caller drops it) and
\* the length of the patch list before and after
Logged(st0, name, r) ==
    [r.st EXCEPT !.log = Append(@, [rule |-> name, ret |-> r.ret,
                                     before |-> Len(st0.patches),
                                     after |-> Len(r.st.patches)])]

\* the calls of find_all from the i-th on
RECURSIVE RunRules(_, _, _)
RunRules(st, rules, i) ==
    IF i > Len(rules) THEN st
    ELSE Only({ RunRules(next, rules, i + 1) :
                  next \in {Logged(st, rules[i], RunRule(rules[i], st))} })

find_all(st) == RunRules([st EXCEPT !.patches = << >>], Rules(st), 1)

\* "for off, patch_bytes, _ in patches: self.data[off:off + len(..)] = .."
\* and "return len(patches)"
ApplyPatches(st) ==
    [st EXCEPT !.data = WriteRange(@, st.patches, 1, Len(st.patches)),
               !.ret = Len(st.patches),
               !.phase = "applied"]

apply(st) == ApplyPatches(find_all(st))

----------------------------------------------------------------------------
(* Kernel images.  Two code ranges: the functions (from page 4) and the   *)
(* range that holds the filler run; one DATA segment of 8 pages closes    *)
(* the file.  p says what the image has for each rule.                    *)

NoWords == [o \in {} |-> W("other")]

NoFuncs == [n \in {} |-> 0]

\* the filler run starts here: in branch range of the functions, or not
KCave(p) == IF p.far THEN 2 * Pow2_26 + 20 * PageSize ELSE 64 * PageSize

KData(p) == KCave(p) + PageSize

KSize(p) == KData(p) + 8 * PageSize

\* the sysent table: well inside the DATA segment, or in its last page
KSysent(p) == KData(p) + (IF p.kcall = "tail" THEN 7 ELSE 1) * PageSize

\* _cred_label_update_execve: a function with or without a return
KCredWords(p) ==
    IF p.cred = "none" THEN NoWords
    ELSE (16 * PageSize :> W("pacibsp"))
         @@ (IF p.cred = "ok" THEN (16 * PageSize + 64 :> W("retab"))
                              ELSE NoWords)
         @@ (16 * PageSize + 128 :> W("pacibsp"))

\* _syscallmask_apply_to_proc: its first BL inside or behind the first
\* 0x100 bytes; "split": the two functions it calls lie in the code range
\* of the filler run
KSyscWords(p) ==
    IF p.sysc = "none" THEN NoWords
    ELSE (17 * PageSize :> W("pacibsp"))
         @@ ((17 * PageSize + (IF p.sysc = "nobl" THEN 256 ELSE 16)) :> W("bl"))
         @@ (17 * PageSize + 384 :> W("pacibsp"))

\* the functions behind ops[3] (1280 bytes) and ops[5] (400 bytes)
KHookWords(p) ==
    IF p.hook = "none" THEN NoWords
    ELSE [o \in {20 * PageSize, 20 * PageSize + 1280,
                 20 * PageSize + 2048, 20 * PageSize + 2448} |-> W("pacibsp")]

KOps(p) ==
    [idx \in 0 .. 29 |->
       IF idx = 3 /\ p.hook = "ok" THEN 20 * PageSize
       ELSE IF idx = 5 /\ p.hook # "none" THEN 20 * PageSize + 2048
       ELSE 0]

\* the entries of the ops table that hold a pointer: the low word is
\* the target, the high word the auth rebase metadata of the entry
KOpsWords(p) ==
    IF p.hook = "none" THEN NoWords
    ELSE [o \in UNION { {KData(p) + 256 + 8 * idx, KData(p) + 256 + 8 * idx + 4} :
                          idx \in {i \in 0 .. 29 : KOps(p)[i] > 0} } |->
            IF (o - KData(p)) % 8 = 0
            THEN Insn("ptr.lo", "", "", KOps(p)[(o - KData(p) - 256) \div 8])
            ELSE Insn("ptr.hi", "auth", "",
                      32768 + (o - KData(p) - 256 - 4) \div 8)]

\* nosys, and the two table slots that the sysent search reads
KKcallWords(p) ==
    IF p.kcall = "none" THEN NoWords
    ELSE (21 * PageSize :> Insn("mov", "w0", "#0x4e", 0))
         @@ (21 * PageSize + 4 :> W("ret"))
         @@ (KSysent(p) :> Insn("ptr", "", "", 21 * PageSize))
         @@ (KSysent(p) + 24 :> Insn("ptr", "", "", 21 * PageSize))

\* a function at func_start with n "bl; cbz w0" pairs in its early window
KAmfiFunc(func_start, n) ==
    [o \in {func_start} \cup UNION { {func_start + 16 * k - 8,
                                      func_start + 16 * k - 4} : k \in 1 .. n } |->
       IF o = func_start THEN W("pacibsp")
       ELSE IF (o - func_start) % 16 = 8 THEN W("bl")
       ELSE Insn("cbz", "w0", "", 0)]

\* p.amfi: the numbers of pairs of the functions that refer to the string
KAmfiRefs(p) == [i \in 1 .. Len(p.amfi) |-> 22 * PageSize + 2048 * (i - 1)]

RECURSIVE KAmfiWords(_, _)
KAmfiWords(p, i) ==
    IF i > Len(p.amfi) THEN NoWords
    ELSE KAmfiFunc(KAmfiRefs(p)[i], p.amfi[i]) @@ KAmfiWords(p, i + 1)

\* what the other rules of groups A and B find: nothing, a site for every
\* second rule, or one or two sites for every rule
KSimple(p) ==
    [name \in {KernelRules[i] : i \in 1 .. 20}
                \ {"patch_amfi_execve_kill_path"} |->
       [k \in 1 .. (IF p.simple = "none" THEN 0
                    ELSE IF p.simple = "some"
                    THEN (CHOOSE i \in 1 .. 20 : KernelRules[i] = name) % 2
                    ELSE 1 + ((CHOOSE i \in 1 .. 20 : KernelRules[i] = name) % 2))
          |-> [off |-> 24 * PageSize
                        + 256 * (CHOOSE i \in 1 .. 20 : KernelRules[i] = name)
                        + 8 * k,
               words |-> <<W("nop")>>]]]

KFuncs(p) ==
    (IF p.cred = "none" THEN NoFuncs
     ELSE ("_cred_label_update_execve" :> 16 * PageSize))
    @@ (IF p.sysc = "none" THEN NoFuncs
        ELSE ("_syscallmask_apply_to_proc" :> 17 * PageSize)
             @@ ("_zalloc_ro_mut" :>
                   IF p.sysc = "split" THEN KCave(p) + 2048 ELSE 18 * PageSize)
             @@ ("_proc_set_syscall_filter_mask" :>
                   IF p.sysc = "split" THEN KCave(p) + 2048 + 256
                   ELSE 18 * PageSize + 256))
    @@ (IF p.hook = "none" THEN NoFuncs
        ELSE ("_vnode_getattr" :> 19 * PageSize))

\* with symbols the functions are in the symbol table, _nosys and the
\* munger too; without, the rules arrive at them by their anchors
KernelImage(p) ==
    [size |-> KSize(p),
     words |-> KCredWords(p) @@ KSyscWords(p) @@ KHookWords(p)
               @@ KOpsWords(p) @@ KKcallWords(p) @@ KAmfiWords(p, 1),
     fill |-> IF p.cave = 0 THEN {}
              ELSE {<<KCave(p), KCave(p) + 4 * p.cave, p.filler>>},
     default |-> "other",
     code_ranges |-> << <<4 * PageSize, 32 * PageSize>>, <<KCave(p), KData(p)>> >>,
     kern_text |-> <<4 * PageSize, 32 * PageSize>>,
     symbols |-> IF p.syms
                 THEN KFuncs(p) @@ ("_munge_wwwwwwww" :> 21 * PageSize + 64)
                      @@ (IF p.kcall = "none" THEN NoFuncs
                          ELSE ("_nosys" :> 21 * PageSize))
                 ELSE NoFuncs,
     anchors |-> IF p.syms THEN NoFuncs ELSE KFuncs(p),
     amfi_refs |-> KAmfiRefs(p),
     simple |-> KSimple(p),
     ops |-> KOps(p),
     ops_table |-> IF p.hook = "none" THEN -1 ELSE KData(p) + 256,
     data_segs |-> << <<KData(p), 8 * PageSize>> >>]

\* the lengths of the filler run, in words: none, room for the first cave,
\* for the first two, for all four
KCaveWords == {0, 8, 60, 400}

KBase ==
    [cave |-> 400, filler |-> "zero", far |-> FALSE, cred |-> "ok",
     sysc |-> "ok", hook |-> "ok", kcall |-> "ok", amfi |-> <<2>>,
     simple |-> "all", syms |-> TRUE]

\* the images: what the four shellcode rules find, near and far from the
\* filler run; the run's length and filler; the amfi functions and the
\* other rules' sites, with and without symbols
KernelProfiles ==
    { [KBase EXCEPT !.cred = c, !.sysc = s, !.hook = h, !.kcall = k, !.far = f] :
        c \in {"none", "noret", "ok"}, s \in {"none", "nobl", "ok"},
        h \in {"none", "small", "ok"}, k \in {"none", "ok", "tail"},
        f \in BOOLEAN }
    \cup { [KBase EXCEPT !.sysc = "split", !.far = f] : f \in BOOLEAN }
    \cup { [KBase EXCEPT !.cave = n, !.filler = w, !.kcall = k] :
             n \in KCaveWords, w \in Filler, k \in {"ok", "tail"} }
    \cup { [KBase EXCEPT !.amfi = a, !.simple = m, !.syms = y] :
             a \in {<< >>, <<0>>, <<1>>, <<2>>, <<3>>, <<3, 2>>, <<2, 2>>},
             m \in {"none", "some", "all"}, y \in BOOLEAN }

----------------------------------------------------------------------------
(* TXM and iBoot images: raw is the sequence of the words.  The strings   *)
(* lie in the first 16 words, the code follows; an ADRP to page 0 and an  *)
(* ADD of the string's offset make a reference.                           *)

Other == W("other")

Repeat(block, n) == [i \in 1 .. n * Len(block) |-> block[((i - 1) % Len(block)) + 1]]

StringArea == [i \in 1 .. 16 |-> W("bad")]

StrGetTaskAllow == 4 * 0

StrDebugger == 4 * 4

StrDeveloperMode == 4 * 8

StrBootNonce == 4 * 12

RefTo(s_off) == << Insn("adrp", "x1", "", 0), Insn("add", "x1", "x1", s_off) >>

Gap == Repeat(<<Other>>, 8)

HashcmpBlock ==
    << Insn("mov", "w2", "#0x14", 0), W("bl"), Insn("cbz", "w0", "", 0), Other >>

A1Block ==
    << W("b.lo"), Other, Insn("cbz", "x9", "", 0), Insn("mov", "w0", "#0xa1", 0),
       Other >>

GetTaskAllowBlock(refs) ==
    Repeat(RefTo(StrGetTaskAllow), refs)
    \o << Other, W("bl"), Insn("tbnz", "w0", "#0", 0) >> \o Gap

\* the debugger gate: a function that asks for the debugger entitlement
DebuggerBlock(refs) ==
    << W("pacibsp") >> \o Repeat(RefTo(StrDebugger), refs)
    \o << Insn("mov", "x0", "#0", 0), Insn("mov", "x2", "#0", 0), W("bl"),
          Insn("tbnz", "w0", "#0", 0), W("ret") >> \o Gap

\* where the first DebuggerBlock of TxmCode starts
TxmGate == 4 * (Len(StringArea) + 3)

StubBlock ==
    << Insn("bti", "j", "", 0), Insn("mov", "x0", "x20", 0), W("bl"),
       Insn("mov", "x1", "x21", 0), Insn("mov", "x2", "x22", 0),
       Insn("bl", "", "", TxmGate), W("b"), Other >>

CaveBlock(kind) ==
    IF kind = "none" THEN << >>
    ELSE IF kind = "short" THEN << Other >> \o Repeat(<<W("zero")>>, 4) \o << Other >>
    ELSE IF kind = "branch" THEN << W("b") >> \o Repeat(<<W("zero")>>, 8)
    ELSE << Other >> \o Repeat(<<W("zero")>>, 8)

DeveloperModeBlock ==
    << Insn("tbz", "w9", "#0", 0), Other >> \o RefTo(StrDeveloperMode) \o Gap

TxmCode(p) ==
    StringArea \o << Other, Other, Other >>
    \o Repeat(DebuggerBlock(p.refs), p.dbg)
    \o Repeat(HashcmpBlock, p.hash) \o Repeat(A1Block, p.a1)
    \o Repeat(GetTaskAllowBlock(p.refs), p.gta)
    \o Repeat(StubBlock, p.stub) \o CaveBlock(p.cave)
    \o Repeat(DeveloperModeBlock, p.dev) \o << Other >>

TxmImage(p) ==
    [raw |-> TxmCode(p), size |-> 4 * Len(TxmCode(p)),
     strings |-> ("get-task-allow" :> {StrGetTaskAllow})
                 @@ ("com.apple.private.cs.debugger" :> {StrDebugger})
                 @@ ("developer mode enabled due to system policy configuration"
                       :> {StrDeveloperMode}),
     udf_decodes |-> p.udf, mode |-> "txm"]

TxmBase ==
    [hash |-> 2, a1 |-> 1, gta |-> 1, dbg |-> 1, stub |-> 1, cave |-> "near",
     dev |-> 1, udf |-> TRUE, refs |-> 1]

\* up to MaxSites sites per rule; refs: the number of references to the
\* string in front of each get-task-allow and debugger site
MaxSites == 4

TxmProfiles ==
    { [TxmBase EXCEPT !.hash = h, !.a1 = a] :
        h \in 0 .. MaxSites, a \in 0 .. MaxSites - 2 }
    \cup { [TxmBase EXCEPT !.gta = g, !.dbg = d, !.dev = v] :
             g \in 0 .. MaxSites - 2, d \in 0 .. MaxSites - 2,
             v \in 0 .. MaxSites - 2 }
    \cup { [TxmBase EXCEPT !.stub = s, !.cave = c, !.udf = u] :
             s \in 0 .. MaxSites - 2,
             c \in {"none", "short", "near", "branch"}, u \in BOOLEAN }
    \cup { [TxmBase EXCEPT !.refs = 2, !.gta = g, !.dbg = d] :
             g \in 1 .. 2, d \in 1 .. 2 }

\* a reference to "boot-nonce", with or without the branch site behind it
NonceBlock(site) ==
    RefTo(StrBootNonce)
    \o (IF site
        THEN << Other, Insn("tbz", "w0", "#0", 4 * Len(StringArea)),
                Insn("mov", "w0", "#0", 0), W("bl") >>
        ELSE << Other, Other, Other, Other >>)
    \o Repeat(<<Other>>, 64)

\* p.refs references, those from the p.first-th on with a site
IBootCode(p) ==
    StringArea \o << Other, Other, Other >>
    \o [i \in 1 .. p.refs * Len(NonceBlock(TRUE)) |->
          NonceBlock(((i - 1) \div Len(NonceBlock(TRUE))) + 1 >= p.first)
                    [((i - 1) % Len(NonceBlock(TRUE))) + 1]]
    \o << Other >>

IBootImage(p) ==
    [raw |-> IBootCode(p), size |-> 4 * Len(IBootCode(p)),
     strings |-> ("boot-nonce" :> {StrBootNonce}),
     udf_decodes |-> TRUE, mode |-> p.mode]

IBootProfiles ==
    { [refs |-> r, first |-> f, mode |-> m] :
        r \in 0 .. MaxSites - 2, f \in 1 .. MaxSites - 1, m \in {"ibss", "ibec"} }

----------------------------------------------------------------------------
(* The run: a patcher is constructed on an image, then apply() is called. *)

Patcher(kind, img) ==
    [kind |-> kind, img |-> img, data |-> [len |-> img.size, ov |-> NoWords],
     patches |-> << >>, log |-> << >>, caves |-> << >>, ret |-> -1,
     phase |-> "loaded"]

Init ==
    /\ enc = Idle /\ xr = Idle /\ dy = Idle /\ dr = Idle /\ fx = Idle
    /\ pt \in { Patcher("kernel", KernelImage(p)) : p \in KernelProfiles }
         \cup { Patcher("txm", TxmImage(p)) : p \in TxmProfiles }
         \cup { Patcher("iboot", IBootImage(p)) : p \in IBootProfiles }

\* KernelJBPatcher(data).apply()
KernelJBApply ==
    /\ pt.kind = "kernel" /\ pt.phase = "loaded"
    /\ pt' = apply(pt)
    /\ UNCHANGED <<enc, xr, dy, dr, fx>>

\* TXMJBPatcher(data).apply()
TXMJBApply ==
    /\ pt.kind = "txm" /\ pt.phase = "loaded"
    /\ pt' = apply(pt)
    /\ UNCHANGED <<enc, xr, dy, dr, fx>>

\* IBootJBPatcher(data, mode).apply()
IBootJBApply ==
    /\ pt.kind = "iboot" /\ pt.phase = "loaded"
    /\ pt' = apply(pt)
    /\ UNCHANGED <<enc, xr, dy, dr, fx>>

\* the sizes of a further allocation
CaveSizes == {32, 40, 128}

\* one more _find_code_cave(size) on the patcher that find_all has run on
KernelFindCodeCave ==
    /\ pt.kind = "kernel" /\ pt.phase = "applied"
    /\ \E size \in CaveSizes :
         /\ _find_code_cave(pt, size) >= 0
         /\ pt' = [NoteCave(pt, "_find_code_cave", _find_code_cave(pt, size), size)
                     EXCEPT !.phase = "probed"]
    /\ UNCHANGED <<enc, xr, dy, dr, fx>>

Next == KernelJBApply \/ TXMJBApply \/ IBootJBApply \/ KernelFindCodeCave

Spec == Init /\ [][Next]_vars

----------------------------------------------------------------------------
(* Claims about the patchers, under Spec.                                  *)

\* C1: apply is length-preserving: once apply has returned, the working
\* buffer is as long as the image was, whatever the rules registered, the
\* sysent[439] writes of patch_kcall10 included.
C1_ApplyLengthPreserving ==
    pt.phase # "loaded" => pt.data.len = pt.img.size

\* the shellcode of the i-th cave was emitted, by the rule that got the
\* cave, before the next cave was returned
Emitted(i) ==
    \E k \in 1 .. Len(pt.patches) :
       /\ pt.caves[i].at < k /\ k <= pt.caves[i + 1].at
       /\ pt.patches[k].off = pt.caves[i].off

\* C2: the spans returned by _find_code_cave are pairwise disjoint: a span
\* returned after an earlier cave's shellcode has been emitted does not
\* overlap that earlier cave, for the four shellcode rules (32, 160, 180
\* and 128 bytes) and for a further allocation of any size.
C2_CavesDisjoint ==
    \A i, j \in 1 .. Len(pt.caves) :
       i < j /\ Emitted(i) =>
          \/ pt.caves[i].off + pt.caves[i].size <= pt.caves[j].off
          \/ pt.caves[j].off + pt.caves[j].size <= pt.caves[i].off

\* C3: when patch_cred_label_update_execve or
\* patch_syscallmask_apply_to_proc returns False, the patch list holds
\* exactly the patches it held before the rule ran.
C3_FailedRuleLeavesNoPatch ==
    \A k \in 1 .. Len(pt.log) :
       /\ pt.log[k].rule \in {"patch_cred_label_update_execve",
                              "patch_syscallmask_apply_to_proc"}
       /\ ~pt.log[k].ret
       => pt.log[k].after = pt.log[k].before

\* the number of sites that a rule's predicate matches in the image
SiteCount(st, rule) ==
    CASE rule = "patch_selector24_hashcmp_calls" ->
            Cardinality(HashcmpSites(st.img))
      [] rule = "patch_selector24_a1_path" -> Cardinality(A1Sites(st.img))
      [] rule = "patch_get_task_allow_force_true" ->
            Cardinality(GetTaskAllowCands(st.img))
      [] rule = "patch_debugger_entitlement_force_true" ->
            Cardinality(DebuggerCands(st.img, st.img.size - 4))
      [] rule = "patch_developer_mode_bypass" ->
            Cardinality(DeveloperModeCands(st.img))

\* the match counts that a rule expects
ExpectedCount(rule, n) ==
    IF rule = "patch_selector24_hashcmp_calls" THEN n >= 1 /\ n <= 3
    ELSE n = 1

\* C4: a rule registers patches only when its predicate matches the
\* expected number of sites, and with any other number it registers none
\* and returns False: the four one-site TXM rules, the hashcmp rule (one to
\* three sites), and the amfi execve rule (a function with exactly two
\* sites, two patches).
C4_ExpectedMatchCount ==
    \A k \in 1 .. Len(pt.log) :
       /\ pt.kind = "txm" /\ pt.log[k].rule # "patch_selector42_29_shellcode"
          => IF ExpectedCount(pt.log[k].rule, SiteCount(pt, pt.log[k].rule))
             THEN pt.log[k].ret
             ELSE ~pt.log[k].ret /\ pt.log[k].after = pt.log[k].before
       /\ pt.kind = "kernel" /\ pt.log[k].rule = "patch_amfi_execve_kill_path"
          => IF \E i \in 1 .. Len(pt.img.amfi_refs) :
                   Cardinality(AmfiHits(pt.img, pt.img.amfi_refs[i],
                       AmfiFuncEnd(pt.img, pt.img.amfi_refs[i]))) = 2
             THEN pt.log[k].ret /\ pt.log[k].after = pt.log[k].before + 2
             ELSE ~pt.log[k].ret /\ pt.log[k].after = pt.log[k].before

\* the patches registered by the rules log[1 .. k] that returned True
RECURSIVE Succeeded(_, _)
Succeeded(log, k) ==
    IF k = 0 THEN 0
    ELSE Succeeded(log, k - 1)
         + (IF log[k].ret THEN log[k].after - log[k].before ELSE 0)

\* C5: every rule of the declared list is run exactly once, in the declared
\* order, whatever the earlier rules returned, and apply returns the number
\* of patches registered by the rules that succeeded.
C5_AllRulesRunAndCounted ==
    pt.phase # "loaded" =>
       /\ [k \in 1 .. Len(pt.log) |-> pt.log[k].rule] = Rules(pt)
       /\ pt.ret = Succeeded(pt.log, Len(pt.log))

----------------------------------------------------------------------------
(* The driver: fw_patch_jb.py main.  dr.pc is where main stands, dr.i the *)
(* component of COMPONENTS in hand, dr.data what load_firmware returned,  *)
(* dr.files what each component file holds, dr.trace what has happened,   *)
(* dr.status the exit status (-1 while running).                          *)

\* COMPONENTS: the name and the patcher behind the patch function
COMPONENTS ==
    << [name |-> "iBSS (JB)", kind |-> "iboot"],
       [name |-> "TXM (JB)", kind |-> "txm"],
       [name |-> "kernelcache (JB)", kind |-> "kernel"] >>

\* patch_ibss_jb / patch_txm_jb / patch_kernelcache_jb: "n = p.apply()"
PatchCount(kind, data) == apply(Patcher(kind, data)).ret

Event(ev, comp, n) == [ev |-> ev, comp |-> comp, n |-> n]

Did(d, ev, comp, n) == [d EXCEPT !.trace = Append(@, Event(ev, comp, n))]

\* sys.exit(status), or an exception that nothing catches (status 1)
Exit(d, status) == [d EXCEPT !.pc = "exit", !.status = status]

\* subprocess.run without check=True: the exit code is not looked at
AfterBaseUnchecked(d, code) ==
    [Did(d, "base_exit", 0, code) EXCEPT !.pc = "restore"]

\* a patch_component that goes on to save_firmware whatever patch_fn says
AfterPatchKeepGoing(d, n) ==
    [Did(d, IF n > 0 THEN "patched" ELSE "failed", d.i, n) EXCEPT !.pc = "save"]

\* subprocess.run([...], check=True) returns when the process has exited:
\* with a non-zero code it raises CalledProcessError
AfterBase(d, code) ==
    IF code # 0 THEN Exit(Did(d, "base_exit", 0, code), 1)
    ELSE [Did(d, "base_exit", 0, code) EXCEPT !.pc = "restore"]

\* "if not patch_fn(data): ... sys.exit(1)", else on to save_firmware
AfterPatch(d, n) ==
    IF ~(n > 0) THEN Exit(Did(d, "failed", d.i, n), 1)
    ELSE [Did(d, "patched", d.i, n) EXCEPT !.pc = "save"]

\* what load_firmware can return for a component: an image that the
\* patcher finds something in, and one that it finds nothing in
DrImages(kind) ==
    IF kind = "iboot"
    THEN { IBootImage([refs |-> r, first |-> 1, mode |-> "ibss"]) : r \in 0 .. 1 }
    ELSE IF kind = "txm"
    THEN { TxmImage([TxmBase EXCEPT !.hash = h]) : h \in 1 .. MaxSites } \cup
         { TxmImage([hash |-> 0, a1 |-> 0, gta |-> 0, dbg |-> 0, stub |-> 0,
                     cave |-> "none", dev |-> 0, udf |-> TRUE, refs |-> 1]) }
    ELSE { KernelImage([KBase EXCEPT !.cave = c]) : c \in KCaveWords } \cup
         { KernelImage([cave |-> 0, filler |-> "zero", far |-> FALSE,
                        cred |-> "none", sysc |-> "none", hook |-> "none",
                        kcall |-> "none", amfi |-> << >>, simple |-> "none",
                        syms |-> FALSE]) }

\* exit codes of the base fw_patch process
BaseCodes == {0, 1, 2}

DrInit ==
    /\ enc = Idle /\ xr = Idle /\ dy = Idle /\ pt = Idle /\ fx = Idle
    /\ dr = [pc |-> "main", status |-> -1, i |-> 0, data |-> None,
             files |-> [k \in 1 .. Len(COMPONENTS) |-> "base"],
             trace |-> << >>]

\* lines 82-93: the directory check, then the base pass is started
DrStart ==
    /\ dr.pc = "main"
    /\ \E isdir \in BOOLEAN :
         dr' = IF isdir THEN [Did(dr, "base_start", 0, 0) EXCEPT !.pc = "base"]
               ELSE Exit(dr, 1)
    /\ UNCHANGED <<enc, xr, dy, pt, fx>>

\* line 93: the base fw_patch process exits
DrBaseExit ==
    /\ dr.pc = "base"
    /\ \E code \in BaseCodes : dr' = AfterBase(dr, code)
    /\ UNCHANGED <<enc, xr, dy, pt, fx>>

\* lines 95-102: find_restore_dir
DrFindRestoreDir ==
    /\ dr.pc = "restore"
    /\ \E found \in BOOLEAN :
         dr' = IF found THEN [dr EXCEPT !.pc = "find", !.i = 1]
               ELSE Exit(dr, 1)
    /\ UNCHANGED <<enc, xr, dy, pt, fx>>

\* lines 104-106: find_file for the component in hand; it leaves the
\* program (status 1) when no pattern matches
DrFindFile ==
    /\ dr.pc = "find"
    /\ \E found \in BOOLEAN :
         dr' = IF found THEN [Did(dr, "found", dr.i, 0) EXCEPT !.pc = "load"]
               ELSE Exit(dr, 1)
    /\ UNCHANGED <<enc, xr, dy, pt, fx>>

\* line 67: load_firmware
DrLoad ==
    /\ dr.pc = "load"
    /\ \E img \in DrImages(COMPONENTS[dr.i].kind) :
         dr' = [Did(dr, "loaded", dr.i, 0) EXCEPT !.pc = "patch",
                                                 !.data = Some(img)]
    /\ UNCHANGED <<enc, xr, dy, pt, fx>>

\* lines 72-74: the patch function
DrPatch ==
    /\ dr.pc = "patch"
    /\ dr' = [AfterPatch(dr, PatchCount(COMPONENTS[dr.i].kind, The(dr.data)))
                EXCEPT !.data = None]
    /\ UNCHANGED <<enc, xr, dy, pt, fx>>

\* lines 76-78 and the loop: save_firmware, then the next component or
\* the end of the loop
DrSave ==
    /\ dr.pc = "save"
    /\ dr' = [Did(dr, "saved", dr.i, 0) EXCEPT
                !.files[dr.i] = "jb",
                !.pc = IF dr.i = Len(COMPONENTS) THEN "banner" ELSE "find",
                !.i = IF dr.i = Len(COMPONENTS) THEN dr.i ELSE dr.i + 1]
    /\ UNCHANGED <<enc, xr, dy, pt, fx>>

\* lines 109-111: the completion banner, and main returns
DrBanner ==
    /\ dr.pc = "banner"
    /\ dr' = [Did(dr, "banner", 0, 0) EXCEPT !.pc = "done", !.status = 0]
    /\ UNCHANGED <<enc, xr, dy, pt, fx>>

DrNext ==
    \/ DrStart \/ DrBaseExit \/ DrFindRestoreDir \/ DrFindFile
    \/ DrLoad \/ DrPatch \/ DrSave \/ DrBanner

SpecDriver == DrInit /\ [][DrNext]_vars

Happened(ev, comp) ==
    \E k \in 1 .. Len(dr.trace) : dr.trace[k].ev = ev /\ dr.trace[k].comp = comp

\* C11: when the patch function of a component reports failure, the driver
\* has exited with status 1, has not saved that component and has touched
\* no later component; every exit other than the normal end has a non-zero
\* status; the completion banner is reached only when all three components
\* were patched and saved.
C11_FailureStopsDriver ==
    dr # Idle =>
      /\ \A c \in 1 .. Len(COMPONENTS) :
           Happened("failed", c) =>
             /\ dr.pc = "exit" /\ dr.status = 1
             /\ ~Happened("saved", c) /\ dr.files[c] = "base"
             /\ \A k \in 1 .. Len(dr.trace) : dr.trace[k].comp <= c
      /\ (dr.pc = "exit" => dr.status # 0)
      /\ Happened("banner", 0) =>
           \A c \in 1 .. Len(COMPONENTS) :
             /\ Happened("patched", c) /\ Happened("saved", c)
             /\ ~Happened("failed", c)

\* the TXM patch function has failed after iBSS was patched and saved
C11_Witness ==
    /\ dr # Idle
    /\ Happened("saved", 1) /\ Happened("failed", 2)
    /\ dr.pc = "exit"

\* C12: no JB component is looked up, loaded, patched or saved before the
\* base fw_patch process has exited with status 0, and after a non-zero
\* exit of that process no component is ever touched.
C12_BaseBeforeExtension ==
    dr # Idle =>
      /\ \A k \in 1 .. Len(dr.trace) :
           dr.trace[k].comp > 0 =>
             \E j \in 1 .. k - 1 :
               dr.trace[j].ev = "base_exit" /\ dr.trace[j].n = 0
      /\ (\E j \in 1 .. Len(dr.trace) :
            dr.trace[j].ev = "base_exit" /\ dr.trace[j].n # 0) =>
           /\ dr.pc = "exit" /\ dr.status # 0
           /\ \A k \in 1 .. Len(dr.trace) : dr.trace[k].comp = 0
           /\ \A c \in 1 .. Len(COMPONENTS) : dr.files[c] = "base"

\* the base process has exited with a non-zero status
C12_Witness ==
    /\ dr # Idle
    /\ \E j \in 1 .. Len(dr.trace) :
         dr.trace[j].ev = "base_exit" /\ dr.trace[j].n # 0
    /\ dr.pc = "exit"

----------------------------------------------------------------------------
(* A second run of the rule set: apply called again on the same patcher   *)
(* (raw is the snapshot of the first load, data the patched buffer), or a *)
(* fresh TXM or iBoot patcher loaded from the patched buffer.             *)

\* the word of the working buffer at off
WordOf(st, off) ==
    IF off \in DOMAIN st.data.ov THEN st.data.ov[off]
    ELSE IF st.kind = "kernel" THEN RawWord(st.img, off)
    ELSE At(st.img, off)

\* bytes(p.data) of a TXM or iBoot patcher, as words
BufferWords(st) ==
    [i \in 1 .. st.data.len \div 4 |-> WordOf(st, 4 * (i - 1))]

\* a patcher constructed on the buffer another one produced
Reloaded(st) == Patcher(st.kind, [st.img EXCEPT !.raw = BufferWords(st)])

ApplyAgain ==
    /\ pt # Idle /\ pt.phase = "applied"
    /\ pt' = [apply(pt) EXCEPT !.phase = "rerun"]
    /\ fx' = [first |-> pt, how |-> "again"]
    /\ UNCHANGED <<enc, xr, dy, dr>>

ApplyReloaded ==
    /\ pt # Idle /\ pt.phase = "applied" /\ pt.kind # "kernel"
    /\ pt.data.len = 4 * Len(pt.img.raw)
    /\ pt' = [apply(Reloaded(pt)) EXCEPT !.phase = "rerun"]
    /\ fx' = [first |-> pt, how |-> "fresh"]
    /\ UNCHANGED <<enc, xr, dy, dr>>

RerunNext ==
    \/ KernelJBApply \/ TXMJBApply \/ IBootJBApply
    \/ ApplyAgain \/ ApplyReloaded

SpecRerun == Init /\ [][RerunNext]_vars

\* the buffers of two patchers hold the same bytes
SameBuffer(a, b) ==
    /\ a.data.len = b.data.len
    /\ \A o \in DOMAIN a.data.ov \cup DOMAIN b.data.ov :
         WordOf(a, o) = WordOf(b, o)

\* C13: the buffer after a second run of the full rule set (apply called
\* again, or a fresh patcher loaded from the patched image) equals the
\* buffer after the first run.
C13_RerunIdempotent ==
    (pt # Idle /\ pt.phase = "rerun") => SameBuffer(fx.first, pt)

----------------------------------------------------------------------------
(* Two rules of a patcher run in one order and in the other, each followed *)
(* by the write loop of apply.                                             *)

\* self.patches = []; self.<a>(); self.<b>(); then the loop of apply
RunPair(st, a, b) ==
    ApplyPatches(RunRules([st EXCEPT !.patches = << >>], <<a, b>>, 1))

OrderInit ==
    /\ enc = Idle /\ xr = Idle /\ dy = Idle /\ dr = Idle /\ fx = Idle
    /\ pt \in { Patcher("kernel", KernelImage([KBase EXCEPT !.cave = c,
                                                           !.far = f])) :
                  c \in KCaveWords, f \in BOOLEAN }
         \cup { Patcher("txm", TxmImage([TxmBase EXCEPT !.hash = h])) :
                  h \in 1 .. MaxSites }

OrderApply ==
    /\ pt.phase = "loaded"
    /\ \E i, j \in 1 .. Len(Rules(pt)) :
         /\ i < j
         /\ pt' = [RunPair(pt, Rules(pt)[i], Rules(pt)[j]) EXCEPT !.phase = "pair"]
         /\ fx' = [other |-> RunPair(pt, Rules(pt)[j], Rules(pt)[i])]
    /\ UNCHANGED <<enc, xr, dy, dr>>

OrderNext == OrderApply

SpecOrder == OrderInit /\ [][OrderNext]_vars

\* the bytes of the patches that the k-th rule run of st registered
SitesOf(st, k) ==
    UNION { { st.patches[n].off + x : x \in 0 .. 4 * Len(st.patches[n].words) - 1 } :
              n \in st.log[k].before + 1 .. st.log[k].after }

DisjointSites(st) == SitesOf(st, 1) \cap SitesOf(st, 2) = {}

\* C14: two rules whose selected patch sites do not overlap give the same
\* final buffer in either order.
C14_OrderIndependent ==
    (pt # Idle /\ pt.phase = "pair"
       /\ DisjointSites(pt) /\ DisjointSites(fx.other))
      => SameBuffer(pt, fx.other)

----------------------------------------------------------------------------
\* the indexes of the registered patches whose range holds offset o
Covering(st, o) ==
    { k \in 1 .. Len(st.patches) :
        /\ st.patches[k].off <= o
        /\ o < st.patches[k].off + 4 * Len(st.patches[k].words) }

\* the word that the last-registered patch covering o has for it
LastPatchWord(st, o) ==
    st.patches[SetMax(Covering(st, o))]
      .words[(o - st.patches[SetMax(Covering(st, o))].off) \div 4 + 1]

\* the offsets of the buffer that differ from the image or lie behind it
TouchedOffsets(st) ==
    DOMAIN st.data.ov
      \cup { st.img.size + 4 * i : i \in 0 .. (st.data.len - st.img.size) \div 4 - 1 }

\* C15: after apply, a word of the working buffer in no registered patch
\* range is the word of the input image at that offset, and a word in one
\* or more patch ranges is the word of the last-registered patch covering it.
C15_FrameAndOverwrite ==
    (pt # Idle /\ pt.phase = "applied") =>
      \A o \in TouchedOffsets(pt) :
        IF Covering(pt, o) = {}
        THEN o < pt.img.size /\ WordOf(pt, o) = RawWord(pt.img, o)
        ELSE WordOf(pt, o) = LastPatchWord(pt, o)

----------------------------------------------------------------------------
(* The order of the lookups inside a kernel rule.  fx.rule is the rule,   *)
(* fx.table what the symbol table has for its target ("empty" table, a    *)
(* "miss" in a table that has other names, a "hit"), fx.trace the lookups *)
(* and scans done so far, fx.ret what the rule returned.                  *)

\* how a rule looks its target up in the symbol table before it scans:
\* by _resolve_symbol, by going through self.symbols.items(), or not at all
LookupOf(rule) ==
    CASE rule \in { "patch_amfi_cdhash_in_trustcache",
                    "patch_amfi_execve_kill_path",
                    "patch_task_conversion_eval_internal",
                    "patch_sandbox_hooks_extended",
                    "patch_post_validation_additional",
                    "patch_convert_port_to_map" } -> "none"
      [] rule = "patch_cred_label_update_execve" -> "items"
      [] OTHER -> "resolve"

KrTables == {"empty", "miss", "hit"}

KrInit ==
    /\ enc = Idle /\ xr = Idle /\ dy = Idle /\ dr = Idle /\ pt = Idle
    /\ fx \in { [rule |-> KernelRules[i], table |-> t, pc |-> "entry",
                 trace |-> << >>, ret |-> "none"] :
                  i \in 1 .. Len(KernelRules), t \in KrTables }

\* "foff = self._resolve_symbol(..)" or the loop over self.symbols.items()
KrLookup ==
    /\ fx.pc = "entry" /\ LookupOf(fx.rule) # "none"
    /\ fx' = [fx EXCEPT !.trace = Append(@, "symbol"),
                        !.pc = IF fx.table = "hit" THEN "resolved"
                               ELSE "fallback"]
    /\ UNCHANGED <<enc, xr, dy, pt, dr>>

\* the string-anchor, cross-reference or instruction-pattern search for
\* the target, and what the rule returns after it
KrScan ==
    /\ \/ fx.pc = "entry" /\ LookupOf(fx.rule) = "none"
       \/ fx.pc = "fallback"
    /\ \E found \in BOOLEAN :
         fx' = [fx EXCEPT !.trace = Append(@, "scan"), !.pc = "done",
                          !.ret = IF found THEN "True" ELSE "False"]
    /\ UNCHANGED <<enc, xr, dy, pt, dr>>

\* the rule goes on from the symbol's offset
KrResolved ==
    /\ fx.pc = "resolved"
    /\ \E ok \in BOOLEAN :
         fx' = [fx EXCEPT !.trace = Append(@, "local"), !.pc = "done",
                          !.ret = IF ok THEN "True" ELSE "False"]
    /\ UNCHANGED <<enc, xr, dy, pt, dr>>

KrNext == KrLookup \/ KrScan \/ KrResolved

SpecKernelRule == KrInit /\ [][KrNext]_vars

\* C16: in every kernel rule no scan for the target starts before a symbol
\* lookup for it has been attempted, and with an empty symbol table the
\* rule goes on to its scan instead of returning.
C16_SymbolBeforeScan ==
    /\ \A k \in 1 .. Len(fx.trace) :
         fx.trace[k] = "scan" => \E j \in 1 .. k - 1 : fx.trace[j] = "symbol"
    /\ (fx.pc = "done" /\ fx.table = "empty") =>
         \E k \in 1 .. Len(fx.trace) : fx.trace[k] = "scan"

----------------------------------------------------------------------------
(* The symbol table of KernelJBPatcher.  fx.tables are the nlist tables of *)
(* the image in the order _build_symbol_table parses them: the top-level   *)
(* LC_SYMTAB, then the LC_SYMTAB of each fileset entry.  An entry has the  *)
(* name its n_strx leads to, n_type and n_value.                           *)

SymBaseVa == 4 * 4

SymSize == 4 * 16

\* "if n_type & 0x0E != 0x0E: continue"
DefinedType(n_type) == (n_type \div 2) % 8 = 7

\* a file offset that only has to be no negative number
FoffNotNegative(foff) == foff >= 0

\* "if 0 <= foff < self.size"
FoffInBuffer(foff) == foff >= 0 /\ foff < SymSize

\* "if name_off >= self.size: continue" and "if name_end < 0 or
\* name_end - name_off > 512: continue"; name_len is name_end - name_off,
\* -1 when no zero byte follows
NameRead(e) == e.name_off_in /\ e.name_len >= 0 /\ e.name_len <= 512

\* one pass of the loop of _parse_nlist
ParseEntry(symbols, e) ==
    IF ~DefinedType(e.n_type) THEN symbols
    ELSE IF e.n_value = 0 THEN symbols
    ELSE IF ~NameRead(e) THEN symbols
    ELSE IF FoffInBuffer(e.n_value - SymBaseVa)
    THEN [n \in DOMAIN symbols \cup {e.name} |->
            IF n = e.name THEN e.n_value - SymBaseVa ELSE symbols[n]]
    ELSE symbols

RECURSIVE _parse_nlist(_, _, _)
_parse_nlist(symbols, entries, i) ==
    IF i > Len(entries) THEN symbols
    ELSE _parse_nlist(ParseEntry(symbols, entries[i]), entries, i + 1)

RECURSIVE ParseTables(_, _, _)
ParseTables(symbols, tables, t) ==
    IF t > Len(tables) THEN symbols
    ELSE ParseTables(_parse_nlist(symbols, tables[t], 1), tables, t + 1)

_build_symbol_table(tables) == ParseTables(NoFuncs, tables, 1)

SymNames == {"_nosys", "_vnode_getattr"}

\* n_type: N_EXT of an undefined symbol, N_SECT, N_SECT | N_EXT
SymTypes == {1, 14, 15}

\* n_value: none, one address below the image, two inside it, one beyond it
SymValues ==
    {0, SymBaseVa - 8, SymBaseVa + 8, SymBaseVa + 12, SymBaseVa + SymSize}

\* the length of the name in the string table: short, 512 bytes, 513 bytes,
\* not terminated
SymNameLens == {6, 512, 512 + 1, -1}

SymEntries ==
    { [name |-> n, n_type |-> t, n_value |-> v, name_len |-> l,
       name_off_in |-> TRUE] :
        n \in SymNames, t \in SymTypes, v \in SymValues,
        l \in SymNameLens } \cup
    { [name |-> n, n_type |-> 15, n_value |-> SymBaseVa + 8, name_len |-> 6,
       name_off_in |-> FALSE] : n \in SymNames }

SymInit ==
    /\ enc = Idle /\ xr = Idle /\ dy = Idle /\ dr = Idle /\ pt = Idle
    /\ fx \in { [pc |-> "raw", tables |-> << <<a>>, <<b>> >>, name |-> "",
                 symbols |-> NoFuncs, foff |-> -1] :
                  a \in SymEntries, b \in { e \in SymEntries : DefinedType(e.n_type) } }

\* KernelJBPatcher.__init__: self._build_symbol_table()
SymBuild ==
    /\ fx.pc = "raw"
    /\ fx' = [fx EXCEPT !.pc = "built",
                        !.symbols = _build_symbol_table(fx.tables)]
    /\ UNCHANGED <<enc, xr, dy, pt, dr>>

\* self._resolve_symbol(name)
SymResolve ==
    /\ fx.pc = "built"
    /\ \E name \in SymNames :
         fx' = [fx EXCEPT !.pc = "resolved", !.name = name,
                          !.foff = _resolve_symbol(fx, name)]
    /\ UNCHANGED <<enc, xr, dy, pt, dr>>

SymNext == SymBuild \/ SymResolve

SpecSymbols == SymInit /\ [][SymNext]_vars

\* an entry that _parse_nlist takes: defined, with a value inside the image
Taken(e) ==
    /\ DefinedType(e.n_type) /\ e.n_value # 0 /\ NameRead(e)
    /\ e.n_value - SymBaseVa >= 0 /\ e.n_value - SymBaseVa < SymSize

\* C17: when the top-level table and a fileset table hold defined entries
\* of one name with different values, _resolve_symbol(name) returns the
\* file offset of the entry that was parsed first.
C17_FirstFoundWins ==
    (/\ fx.pc = "resolved"
     /\ Taken(fx.tables[1][1]) /\ Taken(fx.tables[2][1])
     /\ fx.tables[1][1].name = fx.name /\ fx.tables[2][1].name = fx.name
     /\ fx.tables[1][1].n_value # fx.tables[2][1].n_value)
      => fx.foff = fx.tables[1][1].n_value - SymBaseVa

----------------------------------------------------------------------------
(* String anchors.  fx.data are the bytes of a section of strings (offset  *)
(* 0 is data[1]), fx.sec its start, fx.hit the offset where find() matched *)
(* the anchor, fx.refd the offsets that some ADRP+ADD pair of the code     *)
(* resolves to.  fx.target is the offset the rule's reference resolves to, *)
(* -1 when it finds no reference.                                          *)

ByteAt(data, off) == data[off + 1]

\* cfw._find_cstring_start: "while pos >= section_foff and data[pos] != 0"
RECURSIVE CstringScan(_, _, _)
CstringScan(data, pos, section_foff) ==
    IF pos >= section_foff /\ ByteAt(data, pos) # 0
    THEN CstringScan(data, pos - 1, section_foff)
    ELSE pos + 1

_find_cstring_start(data, match_off, section_foff) ==
    CstringScan(data, match_off - 1, section_foff)

\* patch_launchd_cache_loader: the reference to the string start, else
\* ("Also try the exact substring VA as fallback") to the match
CacheLoaderRef(refd, str_start_off, anchor_off) ==
    IF str_start_off \in refd THEN str_start_off
    ELSE IF anchor_off \in refd THEN anchor_off
    ELSE -1

\* patch_launchd_jetsam: the reference to the string start
JetsamRef(refd, str_start_off) ==
    IF str_start_off \in refd THEN str_start_off ELSE -1

\* TXMJBPatcher / IBootJBPatcher._find_string_refs: the references to
\* s_off = self.raw.find(needle, off)
StringRefsTarget(refd, s_off) ==
    IF s_off \in refd THEN s_off ELSE -1

StrLen == 5

StrInit ==
    /\ enc = Idle /\ xr = Idle /\ dy = Idle /\ dr = Idle /\ pt = Idle
    /\ fx \in { [pc |-> "found", data |-> d, sec |-> s, hit |-> m,
                 refd |-> {}, rule |-> "", start |-> -1, target |-> -1] :
                  d \in [1 .. StrLen -> {0, 65}], s \in 0 .. 1,
                  m \in 0 .. StrLen - 1 }
    /\ fx.hit >= fx.sec /\ ByteAt(fx.data, fx.hit) # 0

\* the offsets the code may refer to: the start of the string, the match
StrRefd(f) ==
    SUBSET {_find_cstring_start(f.data, f.hit, f.sec), f.hit}

StrCacheLoader ==
    /\ fx.pc = "found"
    /\ \E refd \in StrRefd(fx) :
         fx' = [fx EXCEPT !.pc = "refs", !.rule = "patch_launchd_cache_loader",
                  !.refd = refd,
                  !.start = _find_cstring_start(fx.data, fx.hit, fx.sec),
                  !.target = CacheLoaderRef(refd,
                      _find_cstring_start(fx.data, fx.hit, fx.sec), fx.hit)]
    /\ UNCHANGED <<enc, xr, dy, pt, dr>>

StrJetsam ==
    /\ fx.pc = "found"
    /\ \E refd \in StrRefd(fx) :
         fx' = [fx EXCEPT !.pc = "refs", !.rule = "patch_launchd_jetsam",
                  !.refd = refd,
                  !.start = _find_cstring_start(fx.data, fx.hit, fx.sec),
                  !.target = JetsamRef(refd,
                      _find_cstring_start(fx.data, fx.hit, fx.sec))]
    /\ UNCHANGED <<enc, xr, dy, pt, dr>>

StrFindStringRefs ==
    /\ fx.pc = "found"
    /\ \E refd \in StrRefd(fx) :
         fx' = [fx EXCEPT !.pc = "refs", !.rule = "_find_string_refs",
                  !.refd = refd,
                  !.target = StringRefsTarget(refd, fx.hit)]
    /\ UNCHANGED <<enc, xr, dy, pt, dr>>

StrNext == StrCacheLoader \/ StrJetsam \/ StrFindStringRefs

SpecStrings == StrInit /\ [][StrNext]_vars

\* p is the start of the null-terminated string of section s that holds m
IsCstringStart(data, p, m, s) ==
    /\ s <= p /\ p <= m
    /\ \A q \in p .. m - 1 : ByteAt(data, q) # 0
    /\ p = s \/ ByteAt(data, p - 1) = 0

\* C18: _find_cstring_start returns the start of the enclosing string, and
\* every string-anchored rule resolves its references against that start:
\* it finds the reference to the start when the code has one, and none to
\* any other offset.
C18_AnchorNormalised ==
    fx.pc = "refs" =>
      /\ fx.start >= 0 => IsCstringStart(fx.data, fx.start, fx.hit, fx.sec)
      /\ \A p \in 0 .. StrLen - 1 :
           IsCstringStart(fx.data, p, fx.hit, fx.sec) =>
             fx.target = (IF p \in fx.refd THEN p ELSE -1)

----------------------------------------------------------------------------
(* cfw.py patch_mobileactivationd.  fx.segs are the LC_SEGMENT_64 commands *)
(* of the file in load-command order, fx.len its length, fx.sym_va what    *)
(* find_symbol_va returns, fx.objc the IMP addresses of the method-list    *)
(* entries that _find_via_objc_metadata matches, in order.  fx.conv are    *)
(* the conversions made, fx.file what the file holds.                      *)

InSegment(seg, va) == seg.vmaddr <= va /\ va < seg.vmaddr + seg.vmsize

\* a conversion that looks at the start of the range only
RECURSIVE VaToFoffNoEnd(_, _, _)
VaToFoffNoEnd(segs, va, i) ==
    IF i > Len(segs) THEN -1
    ELSE IF segs[i].vmaddr <= va THEN segs[i].fileoff + (va - segs[i].vmaddr)
    ELSE VaToFoffNoEnd(segs, va, i + 1)

\* cfw.va_to_foff: the first LC_SEGMENT_64 whose range holds va
RECURSIVE VaToFoffFrom(_, _, _)
VaToFoffFrom(segs, va, i) ==
    IF i > Len(segs) THEN -1
    ELSE IF InSegment(segs[i], va) THEN segs[i].fileoff + (va - segs[i].vmaddr)
    ELSE VaToFoffFrom(segs, va, i + 1)

va_to_foff(segs, va) == VaToFoffFrom(segs, va, 1)

\* _find_via_objc_metadata, lines 722-744: the first matching entry whose
\* IMP converts
RECURSIVE FindViaObjc(_, _, _)
FindViaObjc(segs, objc, i) ==
    IF i > Len(objc) THEN -1
    ELSE IF va_to_foff(segs, objc[i]) >= 0 THEN va_to_foff(segs, objc[i])
    ELSE FindViaObjc(segs, objc, i + 1)

\* lines 475-478: strategy 1
SymtabFoff(f) == IF f.sym_va > 0 THEN va_to_foff(f.segs, f.sym_va) ELSE -1

\* lines 481-482: strategy 2 when strategy 1 gave nothing
ImpFoff(f) ==
    IF SymtabFoff(f) < 0 THEN FindViaObjc(f.segs, f.objc, 1) ELSE SymtabFoff(f)

\* the calls of va_to_foff that the rule makes: [va, foff]
RECURSIVE ObjcConversions(_, _, _)
ObjcConversions(segs, objc, i) ==
    IF i > Len(objc) THEN << >>
    ELSE <<[va |-> objc[i], foff |-> va_to_foff(segs, objc[i])]>>
         \o (IF va_to_foff(segs, objc[i]) >= 0 THEN << >>
             ELSE ObjcConversions(segs, objc, i + 1))

Conversions(f) ==
    (IF f.sym_va > 0
     THEN <<[va |-> f.sym_va, foff |-> va_to_foff(f.segs, f.sym_va)]>>
     ELSE << >>)
    \o (IF SymtabFoff(f) < 0 THEN ObjcConversions(f.segs, f.objc, 1) ELSE << >>)

patch_mobileactivationd(f) ==
    IF ImpFoff(f) < 0
    THEN [f EXCEPT !.pc = "done", !.ret = "False", !.conv = Conversions(f)]
    ELSE IF ImpFoff(f) + 8 > f.len
    THEN [f EXCEPT !.pc = "done", !.ret = "False", !.conv = Conversions(f)]
    ELSE [f EXCEPT !.pc = "done", !.ret = "True", !.conv = Conversions(f),
                   !.file = [at |-> ImpFoff(f)]]

MaSeg(vmaddr, vmsize, fileoff) ==
    [vmaddr |-> vmaddr, vmsize |-> vmsize, fileoff |-> fileoff]

\* no segment; two adjacent segments; two that overlap; one that maps
\* to the end of the file
MaSegs ==
    { << >>,
      << MaSeg(16, 16, 0), MaSeg(32, 16, 16) >>,
      << MaSeg(16, 32, 0), MaSeg(32, 16, 8) >>,
      << MaSeg(16, 16, 36) >> }

MaLen == 4 * 10

MaVas == {8, 20, 40, 60}

MaInit ==
    /\ enc = Idle /\ xr = Idle /\ dy = Idle /\ dr = Idle /\ pt = Idle
    /\ fx \in { [pc |-> "file", segs |-> sg, len |-> MaLen, sym_va |-> sv,
                 objc |-> ob, conv |-> << >>, ret |-> "none",
                 file |-> [at |-> -1]] :
                  sg \in MaSegs, sv \in MaVas \cup {-1},
                  ob \in {<< >>} \cup { <<a>> : a \in MaVas } }

MaPatch ==
    /\ fx.pc = "file"
    /\ fx' = patch_mobileactivationd(fx)
    /\ UNCHANGED <<enc, xr, dy, pt, dr>>

MaNext == MaPatch

SpecMobileactivationd == MaInit /\ [][MaNext]_vars

----------------------------------------------------------------------------
\* HOOK_INDICES_EXT reaches index 316 of the ops table
OpsSlots == 316 + 1

\* the run of patch_hook_cred_label_update_execve in the log, 0 for none
HookRun(st) ==
    IF \E k \in 1 .. Len(st.log) :
          st.log[k].rule = "patch_hook_cred_label_update_execve" /\ st.log[k].ret
    THEN CHOOSE k \in 1 .. Len(st.log) :
          st.log[k].rule = "patch_hook_cred_label_update_execve" /\ st.log[k].ret
    ELSE 0

\* the patches of that run that lie in the ops table
TablePatches(st) ==
    { n \in st.log[HookRun(st)].before + 1 .. st.log[HookRun(st)].after :
        /\ st.patches[n].off + 4 * Len(st.patches[n].words) > st.img.ops_table
        /\ st.patches[n].off < st.img.ops_table + 8 * OpsSlots }

HookCave(st) ==
    (CHOOSE c \in {st.caves[i] : i \in 1 .. Len(st.caves)} :
        c.rule = "patch_hook_cred_label_update_execve").off

\* C20: the slot rewrite of patch_hook_cred_label_update_execve is one
\* 8-byte patch on one entry of the ops table; its high word is the high
\* word of the original entry, its low word the cave's file offset; the
\* rule patches no other entry, and every other entry of the table is as
\* it was.
C20_OpsSlotRewrite ==
    (pt # Idle /\ pt.kind = "kernel" /\ pt.phase = "applied" /\ HookRun(pt) > 0) =>
      /\ Cardinality(TablePatches(pt)) = 1
      /\ \A n \in TablePatches(pt) :
           /\ (pt.patches[n].off - pt.img.ops_table) % 8 = 0
           /\ Len(pt.patches[n].words) = 2
           /\ pt.patches[n].words[2] = RawWord(pt.img, pt.patches[n].off + 4)
           /\ pt.patches[n].words[1] = Insn("ptr.lo", "", "", HookCave(pt))
           /\ \A o \in DOMAIN pt.data.ov :
                (o >= pt.img.ops_table /\ o < pt.img.ops_table + 8 * OpsSlots
                   /\ o \notin {pt.patches[n].off, pt.patches[n].off + 4})
                  => pt.data.ov[o] = RawWord(pt.img, o)

\* the rule has rewritten an entry that carries auth rebase metadata
C20_Witness ==
    /\ pt # Idle /\ pt.kind = "kernel" /\ pt.phase = "applied" /\ HookRun(pt) > 0
    /\ \E n \in TablePatches(pt) :
         /\ pt.patches[n].words[2].mn = "ptr.hi"
         /\ pt.patches[n].words[2].rd = "auth"
         /\ WordOf(pt, pt.patches[n].off) = Insn("ptr.lo", "", "", HookCave(pt))
         /\ RawWord(pt.img, pt.patches[n].off) # WordOf(pt, pt.patches[n].off)

----------------------------------------------------------------------------
(* patch_proc_security_policy, by its symbol and by its fallback.  The    *)
(* image has _proc_info (a PACIBSP, the "sub wN,wM,#1; cmp wN,#0x21"      *)
(* pair, then BLs) and two BL targets.                                     *)

\* self._is_bl(off) of the base class: the target of a BL, else -1
_is_bl(img, off) ==
    IF RawWord(img, off).mn = "bl" THEN RawWord(img, off).imm ELSE -1

\* self.find_function_start(off) of the base class: the PACIBSP at or
\* before off, -1 when there is none
find_function_start(img, off) ==
    IF RawSites(img, 0, off + 4, {"pacibsp"}) = {} THEN -1
    ELSE SetMax(RawSites(img, 0, off + 4, {"pacibsp"}))

\* lines 646-669: the first offset of kern_text with the pair
SwitchSites(img) ==
    { o \in RawSites(img, img.kern_text[1], img.kern_text[2] - 8, {"sub"}) :
        /\ RawWord(img, o).imm = 1
        /\ RawWord(img, o + 4).mn = "cmp"
        /\ RawWord(img, o + 4).imm = 33
        /\ RawWord(img, o).rd = RawWord(img, o + 4).rd }

\* lines 680-684: the BL sites of the function whose target is in kern_text
BlSites(img, start, end) ==
    { o \in RawSites(img, start, end, {"bl"}) :
        /\ _is_bl(img, o) >= img.kern_text[1]
        /\ _is_bl(img, o) < img.kern_text[2] }

Calls(img, sites, target) ==
    Cardinality({ o \in sites : _is_bl(img, o) = target })

\* a Counter's least_common: the target with the fewest calls
LeastCalled(img, sites) ==
    _is_bl(img, SetMin({ o \in sites :
        \A q \in sites :
           Calls(img, sites, _is_bl(img, o)) <= Calls(img, sites, _is_bl(img, q)) }))

\* bl_targets.most_common(1)[0][0]: the target with the most calls, the
\* one counted first among equals
MostCalled(img, sites) ==
    _is_bl(img, SetMin({ o \in sites :
        \A q \in sites :
           Calls(img, sites, _is_bl(img, o)) >= Calls(img, sites, _is_bl(img, q)) }))

\* the two emits at foff
ForceReturnZero(st, foff) ==
    Ret(emit(emit(st, foff, <<Insn("mov", "x0", "#0", 0)>>),
             foff + 4, <<W("ret")>>), TRUE)

\* lines 671-702
PolicyInProcInfo(st, proc_info_func, sites) ==
    IF proc_info_func < 0 THEN Ret(st, FALSE)
    ELSE IF sites = {} THEN Ret(st, FALSE)
    ELSE IF Calls(st.img, sites, MostCalled(st.img, sites)) < 3
    THEN Ret(st, FALSE)
    ELSE ForceReturnZero(st, MostCalled(st.img, sites))

\* lines 643-675
PolicyFallback(st, switch) ==
    IF switch = {} THEN Ret(st, FALSE)
    ELSE PolicyInProcInfo(st,
            find_function_start(st.img, SetMin(switch)),
            IF find_function_start(st.img, SetMin(switch)) < 0 THEN {}
            ELSE BlSites(st.img, find_function_start(st.img, SetMin(switch)),
                         _find_func_end(st.img,
                            find_function_start(st.img, SetMin(switch)), 16384)))

patch_proc_security_policy(st) ==
    IF _resolve_symbol(st.img, "_proc_security_policy") >= 0
    THEN ForceReturnZero(st, _resolve_symbol(st.img, "_proc_security_policy"))
    ELSE PolicyFallback(st, SwitchSites(st.img))

PspProcInfo == 8 * PageSize

PspF == 10 * PageSize

PspG == 11 * PageSize

\* the BLs of _proc_info: calls[k] is the target of the k-th
PspWords(p) ==
    (PspProcInfo :> W("pacibsp"))
    @@ (IF p.switch
        THEN (PspProcInfo + 8 :> Insn("sub", "w8", "w1", 1))
             @@ (PspProcInfo + 12 :> Insn("cmp", "w8", "", 33))
        ELSE NoWords)
    @@ [o \in {PspProcInfo + 16 + 4 * k : k \in 1 .. Len(p.calls)} |->
          Insn("bl", "", "", p.calls[(o - PspProcInfo - 16) \div 4])]
    @@ (PspProcInfo + 256 :> W("pacibsp"))
    @@ (PspF :> W("pacibsp")) @@ (PspF + 4 :> Insn("mov", "w0", "#0", 0))
    @@ (PspF + 8 :> W("ret"))
    @@ (PspG :> W("pacibsp")) @@ (PspG + 8 :> W("ret"))

PspImage(p) ==
    [size |-> 16 * PageSize, words |-> PspWords(p), fill |-> {},
     default |-> "other", kern_text |-> <<4 * PageSize, 12 * PageSize>>,
     symbols |-> IF p.sym < 0 THEN NoFuncs
                 ELSE ("_proc_security_policy" :> p.sym)]

PspMaxCalls == 4

PspCalls ==
    UNION { [1 .. n -> {PspF, PspG}] : n \in 0 .. PspMaxCalls }

PspInit ==
    /\ enc = Idle /\ xr = Idle /\ dy = Idle /\ dr = Idle /\ fx = Idle
    /\ pt \in { Patcher("kernel", PspImage([switch |-> sw, calls |-> c,
                                            sym |-> sy])) :
                  sw \in BOOLEAN, c \in PspCalls, sy \in {-1, PspF, PspG} }

\* the rule on the image, and on the image without its symbol table
PspRun ==
    /\ pt.phase = "loaded"
    /\ pt' = [patch_proc_security_policy(pt).st EXCEPT
                !.phase = "rule",
                !.ret = IF patch_proc_security_policy(pt).ret THEN 1 ELSE 0]
    /\ fx' = patch_proc_security_policy(
                [pt EXCEPT !.img.symbols = NoFuncs])
    /\ UNCHANGED <<enc, xr, dy, dr>>

PspNext == PspRun

SpecSymbolPath == PspInit /\ [][PspNext]_vars

\* F is the BL target of _proc_info that is called most, three times or
\* more, and _proc_info has the switch pair
FallbackFinds(img, F) ==
    /\ SwitchSites(img) # {}
    /\ Calls(img, BlSites(img, PspProcInfo, PspProcInfo + 256), F) >= 3
    /\ Calls(img, BlSites(img, PspProcInfo, PspProcInfo + 256), F)
         > Calls(img, BlSites(img, PspProcInfo, PspProcInfo + 256),
                 IF F = PspF THEN PspG ELSE PspF)

\* C21: when the symbol table names the target at F, the rule replaces
\* the two words at F whatever they are; when the fallback identifies the
\* same F on the image without symbols, it registers the same patches and
\* the buffers are the same.
C21_SymbolAndFallbackAgree ==
    (pt # Idle /\ pt.phase = "rule"
       /\ _resolve_symbol(pt.img, "_proc_security_policy") >= 0) =>
      /\ pt.ret = 1
      /\ pt.patches =
           << [off |-> pt.img.symbols["_proc_security_policy"],
               words |-> <<Insn("mov", "x0", "#0", 0)>>],
              [off |-> pt.img.symbols["_proc_security_policy"] + 4,
               words |-> <<W("ret")>>] >>
      /\ FallbackFinds(pt.img, pt.img.symbols["_proc_security_policy"]) =>
           /\ fx.ret
           /\ fx.st.patches = pt.patches
           /\ fx.st.data = pt.data

\* the symbol names F, and the fallback has found F by three calls
C21_Witness ==
    /\ pt # Idle /\ pt.phase = "rule"
    /\ _resolve_symbol(pt.img, "_proc_security_policy") = PspF
    /\ FallbackFinds(pt.img, PspF)
    /\ Calls(pt.img, BlSites(pt.img, PspProcInfo, PspProcInfo + 256), PspG) = 1
    /\ fx.ret /\ Len(fx.st.patches) = 2

\* ---------------------------------------------------------------------
\* The while-loops: patch_task_for_pid, patch_load_dylinker and
\* _find_udf_cave, one action per iteration
\* ---------------------------------------------------------------------

\* the offsets of range(s, e, 4) that hold a word of the image
FuncWords(img, s, e) ==
    { o \in DOMAIN img.words : o >= s /\ o < e /\ (o - s) % 4 = 0 }

\* len(self.bl_callers.get(target, []))
BlCallers(img, target) ==
    IF target \in DOMAIN img.bl_callers THEN img.bl_callers[target] ELSE 0

\* ldr wN,[xN,#0x490] followed by str wN,[xN,#0xc]
Ldr490Offs(img, s, e) ==
    { o \in FuncWords(img, s, e) :
        /\ img.words[o].mn = "ldr" /\ img.words[o].rn = "#0x490"
        /\ img.words[o].rd = "w"
        /\ RawWord(img, o + 4).mn = "str" /\ RawWord(img, o + 4).rn = "#0xc"
        /\ RawWord(img, o + 4).rd = "w" }

\* the profile of _task_for_pid
TaskForPidProfile(img, s, e) ==
    /\ Cardinality({ o \in FuncWords(img, s, e) :
                       img.words[o].mn = "ldadda" }) >= 2
    /\ Cardinality(Ldr490Offs(img, s, e)) >= 2
    /\ \E o \in FuncWords(img, s, e) :
          img.words[o].mn = "movk" /\ img.words[o].rn = "#0xc8a2"
    /\ \E o \in FuncWords(img, s, e) :
          /\ img.words[o].mn = "bl"
          /\ BlCallers(img, img.words[o].imm) > 500
          /\ BlCallers(img, img.words[o].imm) < 8000

\* ldr490_offs[1]
SecondOf(S) == SetMin(S \ {SetMin(S)})

\* tst xN,#0x40000000000000; b.eq; movk xN,#0xc8a2 in range(s, e - 8, 4)
Triplets(img, s, e) ==
    { o \in FuncWords(img, s, e - 8) :
        /\ img.words[o].mn = "tst" /\ img.words[o].rn = "#0x40000000000000"
        /\ RawWord(img, o + 4).mn = "b.eq"
        /\ RawWord(img, o + 8).mn = "movk"
        /\ RawWord(img, o + 8).rn = "#0xc8a2" }

\* "off = func_end" of the two kernel loops
FuncAdvance(img, func_start, max_size) ==
    _find_func_end(img, func_start, max_size)

\* the scan that goes on at the end of the zero run
UdfAdvanceToRun(off, run) == run

\* "off = run + 4 if run > off else off + 4"
UdfAdvance(off, run) == IF run > off THEN run + 4 ELSE off + 4

\* the inner loop of _find_udf_cave: the end of the zero run at off
RECURSIVE ZeroRunEnd(_, _, _)
ZeroRunEnd(img, run, end) ==
    IF run < end /\ At(img, run).mn = "zero"
    THEN ZeroRunEnd(img, run + 4, end) ELSE run

Scanning(loop, off, near_off) ==
    [phase |-> "scan", loop |-> loop, off |-> off, best |-> -1,
     near |-> near_off, seen |-> {}]

Scanned(l, result) ==
    [phase |-> "done", loop |-> l.loop, off |-> l.off, best |-> result,
     near |-> l.near, seen |-> l.seen]

\* the image of the kernel loops: two functions, the first with or without
\* BL callers, the second with the words of a profile
ScanKs == 4 * PageSize

ScanKe == ScanKs + 2 * PageSize + 64

ScanF == ScanKs + 64

ScanProfileWords(profile) ==
    IF profile = "task_for_pid"
    THEN (ScanF + 4 :> W("ldadda")) @@ (ScanF + 8 :> W("ldadda"))
         @@ (ScanF + 12 :> Insn("ldr", "w", "#0x490", 0))
         @@ (ScanF + 16 :> Insn("str", "w", "#0xc", 0))
         @@ (ScanF + 20 :> Insn("ldr", "w", "#0x490", 0))
         @@ (ScanF + 24 :> Insn("str", "w", "#0xc", 0))
         @@ (ScanF + 28 :> Insn("movk", "x", "#0xc8a2", 0))
         @@ (ScanF + 32 :> Insn("bl", "", "", ScanKs + PageSize))
    ELSE IF profile = "load_dylinker"
    THEN [o \in {ScanF + 4 + 4 * k : k \in 0 .. 8} |->
            IF (o - ScanF - 4) % 12 = 0
            THEN Insn("tst", "x", "#0x40000000000000", 0)
            ELSE IF (o - ScanF - 4) % 12 = 4
            THEN Insn("b.eq", "", "", ScanF + 64)
            ELSE Insn("movk", "x", "#0xc8a2", 0)]
    ELSE NoWords

ScanImage(p) ==
    [size |-> p.size,
     words |-> [o \in p.funcs |-> W("pacibsp")] @@ ScanProfileWords(p.profile),
     fill |-> {}, default |-> "other",
     kern_text |-> <<ScanKs, ScanKe>>,
     symbols |-> NoFuncs,
     bl_callers |-> (ScanKs + PageSize :> 600)
                    @@ [f \in p.called |-> 1]]

ScanImages ==
    { ScanImage([size |-> s, funcs |-> fs, called |-> c, profile |-> pr]) :
        s \in {ScanKe, ScanKe + 2 * PageSize},
        fs \in SUBSET {ScanKs, ScanF, ScanKe - 8},
        c \in SUBSET {ScanKs},
        pr \in {"none", "task_for_pid", "load_dylinker"} }

\* the images of _find_udf_cave: UdfLen words
UdfLen == 6 + 1

UdfImages ==
    { [raw |-> r, size |-> 4 * UdfLen, udf_decodes |-> u, mode |-> "txm",
       strings |-> [n \in {} |-> {}]] :
        r \in [1 .. UdfLen -> {W("zero"), W("b"), W("other")}],
        u \in BOOLEAN }

ScanInit ==
    /\ enc = Idle /\ xr = Idle /\ dy = Idle /\ dr = Idle /\ fx = Idle
    /\ pt \in { Patcher("kernel", img) : img \in ScanImages }
         \cup { Patcher("txm", img) : img \in UdfImages }

\* the symbol attempt has failed: "off = ks"
KernelScanStart ==
    /\ pt.kind = "kernel" /\ fx = Idle
    /\ \E loop \in {"patch_task_for_pid", "patch_load_dylinker"} :
          /\ _resolve_symbol(pt.img, IF loop = "patch_task_for_pid"
                                     THEN "_task_for_pid"
                                     ELSE "_load_dylinker") < 0
          /\ fx' = Scanning(loop, pt.img.kern_text[1], -1)
    /\ UNCHANGED <<enc, xr, dy, pt, dr>>

\* _find_udf_cave(min_insns=6, near_off): "off = start"
UdfScanStart ==
    /\ pt.kind = "txm" /\ fx = Idle
    /\ \E near_off \in Range4(0, pt.img.size) :
          fx' = Scanning("_find_udf_cave",
                         IF near_off - 4096 > 0 THEN near_off - 4096 ELSE 0,
                         near_off)
    /\ UNCHANGED <<enc, xr, dy, pt, dr>>

\* one iteration of "while off < ke - 4" of patch_task_for_pid
TaskForPidStep ==
    /\ fx.phase = "scan" /\ fx.loop = "patch_task_for_pid"
    /\ IF fx.off >= pt.img.kern_text[2] - 4
       THEN fx' = Scanned(fx, 0) /\ pt' = pt
       ELSE IF RawWord(pt.img, fx.off).mn # "pacibsp"
       THEN fx' = [fx EXCEPT !.off = @ + 4] /\ pt' = pt
       ELSE IF BlCallers(pt.img, fx.off) > 0
       THEN /\ fx' = [fx EXCEPT
                        !.off = FuncAdvance(pt.img, fx.off, 4096),
                        !.seen = IF FuncAdvance(pt.img, fx.off, 4096)
                                    = fx.off + 4096
                                 THEN @ \cup {"cap"} ELSE @]
            /\ pt' = pt
       ELSE IF TaskForPidProfile(pt.img, fx.off,
                                 _find_func_end(pt.img, fx.off, 4096))
       THEN /\ pt' = emit(pt, SecondOf(Ldr490Offs(pt.img, fx.off,
                             _find_func_end(pt.img, fx.off, 4096))),
                          <<W("nop")>>)
            /\ fx' = Scanned(fx, 1)
       ELSE /\ fx' = [fx EXCEPT
                        !.off = FuncAdvance(pt.img, fx.off, 4096),
                        !.seen = IF FuncAdvance(pt.img, fx.off, 4096)
                                    = fx.off + 4096
                                 THEN @ \cup {"cap"} ELSE @]
            /\ pt' = pt
    /\ UNCHANGED <<enc, xr, dy, dr>>

\* one iteration of "while off < ke - 4" of patch_load_dylinker
LoadDylinkerStep ==
    /\ fx.phase = "scan" /\ fx.loop = "patch_load_dylinker"
    /\ IF fx.off >= pt.img.kern_text[2] - 4
       THEN fx' = Scanned(fx, 0) /\ pt' = pt
       ELSE IF RawWord(pt.img, fx.off).mn # "pacibsp"
       THEN fx' = [fx EXCEPT !.off = @ + 4] /\ pt' = pt
       ELSE IF /\ BlCallers(pt.img, fx.off) = 0
               /\ Cardinality(Triplets(pt.img, fx.off,
                     _find_func_end(pt.img, fx.off, 8192))) >= 3
               /\ _encode_b(SetMax(Triplets(pt.img, fx.off,
                     _find_func_end(pt.img, fx.off, 8192))),
                     RawWord(pt.img, 4 + SetMax(Triplets(pt.img, fx.off,
                       _find_func_end(pt.img, fx.off, 8192)))).imm) # None
       THEN /\ pt' = EmitBranch(pt,
                       SetMax(Triplets(pt.img, fx.off,
                         _find_func_end(pt.img, fx.off, 8192))),
                       _encode_b(SetMax(Triplets(pt.img, fx.off,
                         _find_func_end(pt.img, fx.off, 8192))),
                         RawWord(pt.img, 4 + SetMax(Triplets(pt.img, fx.off,
                           _find_func_end(pt.img, fx.off, 8192)))).imm))
            /\ fx' = Scanned(fx, 1)
       ELSE /\ fx' = [fx EXCEPT
                        !.off = FuncAdvance(pt.img, fx.off, 8192),
                        !.seen = IF FuncAdvance(pt.img, fx.off, 8192)
                                    = fx.off + 8192
                                 THEN @ \cup {"cap"} ELSE @]
            /\ pt' = pt
    /\ UNCHANGED <<enc, xr, dy, dr>>

\* the distance of _find_udf_cave
UdfDist(off, near_off) ==
    IF off > near_off THEN off - near_off ELSE near_off - off

\* one iteration of "while off < end" of _find_udf_cave, need = 6 * 4
UdfCaveStep ==
    /\ fx.phase = "scan" /\ fx.loop = "_find_udf_cave"
    /\ \E run \in {ZeroRunEnd(pt.img, fx.off, pt.img.size)} :
          IF fx.off >= pt.img.size
          THEN fx' = Scanned(fx, fx.best)
          ELSE IF /\ run - fx.off >= 6 * 4
                  /\ fx.off >= 4
                  /\ At(pt.img, fx.off - 4).mn \in
                       {"b", "b.eq", "b.ne", "b.lo", "b.hs", "cbz", "cbnz",
                        "tbz", "tbnz"}
          THEN fx' = Scanned(fx, fx.off)
          ELSE fx' = [fx EXCEPT
                 !.off = UdfAdvance(fx.off, run),
                 !.best = IF /\ run - fx.off >= 6 * 4 /\ pt.img.udf_decodes
                             /\ (@ < 0 \/ UdfDist(fx.off, fx.near)
                                            < UdfDist(@, fx.near))
                          THEN fx.off ELSE @,
                 !.seen = IF run = fx.off THEN @ \cup {"empty"} ELSE @]
    /\ UNCHANGED <<enc, xr, dy, pt, dr>>

ScanNext ==
    \/ KernelScanStart
    \/ UdfScanStart
    \/ TaskForPidStep
    \/ LoadDylinkerStep
    \/ UdfCaveStep

SpecScan == ScanInit /\ [][ScanNext]_vars

\* the loops run to their end: the program is sequential, an iteration that
\* can run does run
SpecScanFair == SpecScan /\ WF_vars(ScanNext)

\* C22: every iteration of the while-loops of patch_task_for_pid,
\* patch_load_dylinker and _find_udf_cave moves the scan offset strictly
\* forward (also when the function end is the cap, and when the zero run
\* is empty), and every one of these loops ends
C22_LoopsAdvanceAndEnd ==
    /\ [][(fx.phase = "scan" /\ fx'.phase = "scan") => fx'.off > fx.off]_vars
    /\ <>(fx.phase = "done")

\* a loop that met a function ending at the cap, and ended
C22_Witness ==
    /\ fx.phase = "done" /\ fx.loop = "patch_task_for_pid"
    /\ "cap" \in fx.seen
    /\ pt.img.size > pt.img.kern_text[2]

\* ---------------------------------------------------------------------
\* inject_dylib: what reaches the file
\* ---------------------------------------------------------------------

SliceFailed(run) ==
    \E i \in 1 .. Len(run.out) : run.out[i] = "failed"

\* C23: inject_dylib rewrites the file only when every slice was already
\* satisfied or was injected; when a slice fails it returns False and the
\* file is the input, also when the buffer in memory has an injected slice
\* or a stripped code signature.
C23_FileAllOrNothing ==
    \A n \in 1 .. Len(dy.hist) :
       /\ dy.hist[n].disk # dy.hist[n].before => ~SliceFailed(dy.hist[n])
       /\ SliceFailed(dy.hist[n]) =>
             ~dy.hist[n].ret /\ dy.hist[n].disk = dy.hist[n].before
       /\ ~SliceFailed(dy.hist[n]) =>
             dy.hist[n].ret /\ dy.hist[n].disk = dy.hist[n].data

\* a fat file whose first slice was injected in the buffer and whose second
\* slice is no 64-bit Mach-O: the file is left as it was
C23_Witness ==
    /\ Len(dy.hist) >= 1
    /\ dy.hist[1].before.fat
    /\ dy.hist[1].out[1] = "injected"
    /\ SliceFailed(dy.hist[1])
    /\ dy.hist[1].data # dy.hist[1].before
    /\ dy.hist[1].disk = dy.hist[1].before
    /\ ~dy.hist[1].ret

\* ---------------------------------------------------------------------
\* the load-command header through _inject_lc_load_dylib
\* ---------------------------------------------------------------------

\* the sum of cmdsize over the ncmds load commands
RECURSIVE SumWalked(_, _)
SumWalked(sl, offs) ==
    IF offs = <<>> THEN 0
    ELSE CmdAt(sl, Head(offs)).cmdsize + SumWalked(sl, Tail(offs))

HeaderConsistent(sl) == sl.sizeofcmds = SumWalked(sl, WalkCmds(sl))

\* the last load command of the slice is the LC_LOAD_DYLIB of path, placed
\* at the end of the commands before it
LastIsInjected(sl, path) ==
    /\ sl.ncmds >= 1
    /\ \E last \in {WalkCmds(sl)[sl.ncmds]} :
          /\ CmdAt(sl, last).cmd = LC_LOAD_DYLIB
          /\ last = MachHeaderSize + sl.sizeofcmds - CmdAt(sl, last).cmdsize
          /\ last = MachHeaderSize
                     + SumWalked(sl, SubSeq(WalkCmds(sl), 1, sl.ncmds - 1))
          /\ CmdAt(sl, last).cmdsize % 8 = 0
          /\ CmdAt(sl, last).cmdsize >= DylibCmdHeader + Len(path) + 1
          /\ CmdAt(sl, last).cmdsize < DylibCmdHeader + Len(path) + 1 + 8
          /\ CmdAt(sl, last).name_offset = DylibCmdHeader
          /\ UpToNul(CmdAt(sl, last).tail) = path
          /\ Len(CmdAt(sl, last).tail)
               = CmdAt(sl, last).cmdsize - DylibCmdHeader

\* the header part of C24: what holds of every injected slice
InjectKeepsHeader ==
    \A n \in 1 .. Len(dy.hist) :
       \A i \in 1 .. Len(dy.hist[n].out) :
          (dy.hist[n].out[i] = "injected"
             /\ HeaderConsistent(dy.hist[n].before.slices[i]))
          => /\ HeaderConsistent(dy.hist[n].data.slices[i])
             /\ LastIsInjected(dy.hist[n].data.slices[i], dy.path)

\* C24: after a successful _inject_lc_load_dylib on a slice whose
\* sizeofcmds is the sum of its commands' cmdsize, the equality still holds,
\* the new LC_LOAD_DYLIB is the last command and starts at the end of the
\* commands before it, its cmdsize is a multiple of 8 holding the 24 header
\* bytes and the NUL-terminated path, and the buffer has the length it had.
C24_HeaderAndLengthKept ==
    /\ InjectKeepsHeader
    /\ \A n \in 1 .. Len(dy.hist) :
          ("injected" \in { dy.hist[n].out[i] : i \in 1 .. Len(dy.hist[n].out) }
             /\ \A i \in 1 .. Len(dy.hist[n].out) :
                   HeaderConsistent(dy.hist[n].before.slices[i]))
          => dy.hist[n].data.flen = dy.hist[n].before.flen

\* ---------------------------------------------------------------------
\* the shellcode and the span of its cave
\* ---------------------------------------------------------------------

\* the number of words of the shellcode of a cave-using kernel rule
ShellcodeWords(rule) ==
    CASE rule = "patch_cred_label_update_execve" -> Len(CredShellcode)
      [] rule = "patch_syscallmask_apply_to_proc" ->
            Len(SyscallmaskShellcode(W("bl"), W("b")))
      [] rule = "patch_hook_cred_label_update_execve" ->
            Len(HookShellcode(W("bl"), W("b")))
      [] rule = "patch_kcall10" -> Len(Kcall10Shellcode)
      [] OTHER -> 0

\* the patches among the first n that cover o
CoveringUpTo(st, n, o) ==
    { k \in 1 .. n :
        /\ st.patches[k].off <= o
        /\ o < st.patches[k].off + 4 * Len(st.patches[k].words) }

\* the word at o once the first n patches were written
WordAfter(st, n, o) ==
    IF CoveringUpTo(st, n, o) = {} THEN RawWord(st.img, o)
    ELSE Only({ st.patches[k].words[(o - st.patches[k].off) \div 4 + 1] :
                  k \in {SetMax(CoveringUpTo(st, n, o))} })

\* the kernel rule that got the i-th cave has emitted its shellcode: the
\* patch registered next starts at the cave, and was registered before the
\* next cave was asked for
ShellcodeEmitted(st, i) ==
    /\ ShellcodeWords(st.caves[i].rule) > 0 /\ st.caves[i].off >= 0
    /\ Len(st.patches) > st.caves[i].at
    /\ st.patches[st.caves[i].at + 1].off = st.caves[i].off
    /\ i < Len(st.caves) => st.caves[i + 1].at > st.caves[i].at

KernelShellcodeInCave(st, c) ==
    /\ Len(st.patches) >= c.at + ShellcodeWords(c.rule)
    /\ ShellcodeWords(c.rule) =
         (CASE c.size = 32 -> 8 [] c.size = 160 -> 38 [] c.size = 180 -> 45
            [] c.size = 128 -> 32 [] OTHER -> 0)
    /\ \A j \in 1 .. ShellcodeWords(c.rule) :
          /\ st.patches[c.at + j].off = c.off + 4 * (j - 1)
          /\ Len(st.patches[c.at + j].words) = 1
          /\ st.patches[c.at + j].off + 4 <= c.off + c.size
          /\ WordAfter(st, c.at, st.patches[c.at + j].off).mn \in Filler

\* the patches of patch_selector42_29_shellcode, when it returned True
Selector42Runs(st) ==
    { k \in 1 .. Len(st.log) :
        st.log[k].rule = "patch_selector42_29_shellcode" /\ st.log[k].ret }

TxmShellcodeInCave(st, k) ==
    /\ st.log[k].after = st.log[k].before + 6
    /\ \A j \in 0 .. 4 :
          /\ st.patches[st.log[k].before + 2 + j].off
               = st.patches[st.log[k].before + 2].off + 4 * j
          /\ Len(st.patches[st.log[k].before + 2 + j].words) = 1
    /\ \A j \in 0 .. 5 :
          At(st.img, st.patches[st.log[k].before + 2].off + 4 * j).mn = "zero"

\* C25: every shellcode word of a cave-using rule lies inside the span
\* [cave, cave + size) that the allocator found to be filler: 8 words in 32
\* bytes, 38 in 160, 45 in 180, 32 in 128, and for TXM 5 words in a run of
\* 6 zero words; the word it replaces was filler when the cave was found.
C25_ShellcodeInsideCave ==
    pt # Idle /\ pt.phase \in {"applied", "probed"} =>
      IF pt.kind = "kernel"
      THEN \A i \in 1 .. Len(pt.caves) :
              ShellcodeEmitted(pt, i) =>
                 KernelShellcodeInCave(pt, pt.caves[i])
      ELSE \A k \in Selector42Runs(pt) : TxmShellcodeInCave(pt, k)

\* a kernel run in which the four rules emitted their shellcode
C25_Witness ==
    /\ pt # Idle /\ pt.phase = "applied" /\ pt.kind = "kernel"
    /\ \A r \in {"patch_cred_label_update_execve",
                 "patch_syscallmask_apply_to_proc",
                 "patch_hook_cred_label_update_execve", "patch_kcall10"} :
          \E i \in 1 .. Len(pt.caves) :
             pt.caves[i].rule = r /\ ShellcodeEmitted(pt, i)

\* ---------------------------------------------------------------------
\* patch_selector42_29_shellcode: the redirect and its way back
\* ---------------------------------------------------------------------

\* the stubs the rule finds in the image of st
StubsOf(st) ==
    IF _find_debugger_gate_func_start(st.img) < 0 THEN {}
    ELSE Selector42Stubs(st.img, _find_debugger_gate_func_start(st.img))

\* the six patches of a redirect of stub through cave, from patch n + 1 on
RedirectAt(st, n, stub, cave) ==
    /\ st.patches[n + 1] = [off |-> stub, words |-> <<Insn("b", "asm", "", cave)>>]
    /\ \A j \in 0 .. 4 :
          /\ st.patches[n + 2 + j].off = cave + 4 * j
          /\ Len(st.patches[n + 2 + j].words) = 1
    /\ st.patches[n + 6].words = <<Insn("b", "asm", "", stub + 4)>>
    /\ \A j \in 1 .. 6 :
          st.patches[n + j].off < stub + 4 \/ st.patches[n + j].off >= stub + 24

\* C26: when patch_selector42_29_shellcode returns True it has registered
\* six patches: the branch to the cave at the one stub, and five words at
\* cave .. cave+16 the last of which branches to stub+4; none of them lies
\* in the stub's instructions from stub+4 on.  When the stub count is not 1
\* or no cave is found it returns False and registers nothing.
C26_RedirectKeepsContinuation ==
    (pt # Idle /\ pt.kind = "txm" /\ pt.phase = "applied") =>
      \A k \in 1 .. Len(pt.log) :
         pt.log[k].rule = "patch_selector42_29_shellcode" =>
            /\ pt.log[k].ret =>
                  /\ Cardinality(StubsOf(pt)) = 1
                  /\ pt.log[k].after = pt.log[k].before + 6
                  /\ RedirectAt(pt, pt.log[k].before, SetMin(StubsOf(pt)),
                                _find_udf_cave(pt.img, 6, SetMin(StubsOf(pt))))
                  /\ _find_udf_cave(pt.img, 6, SetMin(StubsOf(pt))) >= 0
            /\ ~pt.log[k].ret => pt.log[k].after = pt.log[k].before
            /\ (Cardinality(StubsOf(pt)) # 1
                  \/ _find_udf_cave(pt.img, 6, SetMin(StubsOf(pt) \cup {0})) < 0)
                 => ~pt.log[k].ret

\* the rule returned True on an image with one stub and a cave
C26_Witness ==
    /\ pt # Idle /\ pt.kind = "txm" /\ pt.phase = "applied"
    /\ \E k \in 1 .. Len(pt.log) :
          /\ pt.log[k].rule = "patch_selector42_29_shellcode"
          /\ pt.log[k].ret
          /\ pt.log[k].after = pt.log[k].before + 6

\* ---------------------------------------------------------------------
\* cfw.py patch_launchd_jetsam, from the cross-reference on.  A file f has
\* the words of __TEXT,__text (f.words, "other" elsewhere), the section
\* (text_foff, text_size) and, for each of the three anchors, the file
\* offset of the ADRP+ADD reference to it, or -1
\* ---------------------------------------------------------------------

cond_mnemonics ==
    {"b.eq", "b.ne", "b.cs", "b.hs", "b.cc", "b.lo", "b.mi", "b.pl", "b.vs",
     "b.vc", "b.hi", "b.ls", "b.ge", "b.lt", "b.gt", "b.le", "cbz", "cbnz",
     "tbz", "tbnz"}

\* disasm_at(data, off, 1)
JWord(f, off) ==
    IF off \in DOMAIN f.words THEN f.words[off] ELSE W("other")

\* _is_return_block from the i-th instruction on
RECURSIVE ReturnBlockFrom(_, _, _)
ReturnBlockFrom(f, foff, i) ==
    IF i >= 8 THEN FALSE
    ELSE IF foff + i * 4 >= f.text_foff + f.text_size THEN FALSE
    ELSE IF JWord(f, foff + i * 4).mn = "bad"
    THEN ReturnBlockFrom(f, foff, i + 1)
    ELSE IF JWord(f, foff + i * 4).mn \in {"ret", "retab"} THEN TRUE
    ELSE IF JWord(f, foff + i * 4).mn \in {"b", "bl", "br", "blr"} THEN FALSE
    ELSE ReturnBlockFrom(f, foff, i + 1)

_is_return_block(f, foff) == ReturnBlockFrom(f, foff, 0)

\* the offsets of "for back in range(ref_foff - 4, scan_lo - 1, -4)" that
\* set patch_off
JetsamMatches(f, ref_foff) ==
    { back \in DOMAIN f.words :
        /\ back <= ref_foff - 4 /\ (ref_foff - back) % 4 = 0
        /\ back >= (IF f.text_foff > ref_foff - 768 THEN f.text_foff
                    ELSE ref_foff - 768)
        /\ f.words[back].mn \in cond_mnemonics
        /\ f.words[back].imm >= f.text_foff
        /\ f.words[back].imm < f.text_foff + f.text_size
        /\ _is_return_block(f, f.words[back].imm) }

\* the last match the descending scan meets
LatestMatch(matches) == SetMax(matches)

EarliestMatch(matches) == SetMin(matches)

\* the anchors from the i-th on: [ret, words (the file afterwards)]
RECURSIVE JetsamFrom(_, _)
JetsamFrom(f, i) ==
    IF i > Len(f.refs) THEN [ret |-> FALSE, words |-> f.words]
    ELSE IF f.refs[i] < 0 \/ JetsamMatches(f, f.refs[i]) = {}
    THEN JetsamFrom(f, i + 1)
    ELSE [ret |-> TRUE,
          words |-> [f.words EXCEPT
             ![EarliestMatch(JetsamMatches(f, f.refs[i]))] =
                Insn("b", "asm", "",
                     f.words[EarliestMatch(JetsamMatches(f, f.refs[i]))].imm)]]

patch_launchd_jetsam(f) == JetsamFrom(f, 1)

\* the text ends at JEnd; two references; blocks that return or do not
JEnd == 4 * 1024

JRef1 == 5 * 256

JRef2 == 9 * 256

\* a return two words in; a branch before the return; a retab as eighth
\* word; a ret as ninth word; the last word of the text
JBlocks ==
    (3584 + 4 :> W("ret"))
    @@ (3616 + 4 :> W("b")) @@ (3616 + 8 :> W("ret"))
    @@ (3648 + 28 :> W("retab"))
    @@ (3712 + 32 :> W("ret"))

JTargets == {3584, 3616, 3648, 3712, JEnd - 4, JEnd, -1}

JFiles ==
    { [text_foff |-> tf, text_size |-> JEnd - tf,
       refs |-> <<-1, r1, r2>>,
       words |-> JBlocks @@ s1 @@ s2] :
        tf \in {256, 768},
        r1 \in {-1, JRef1}, r2 \in {-1, JRef2},
        s1 \in UNION { [S -> { Insn(mn, "", "", t) :
                                 mn \in {"tbz", "b"}, t \in {3584, 3616} }] :
                         S \in SUBSET {JRef1 - 772, JRef1 - 768, JRef1 - 8,
                                       JRef1 - 4} },
        s2 \in {NoWords} \cup
               { (JRef2 - 4 :> Insn("cbz", "", "", t)) : t \in JTargets } }

JetsamInit ==
    /\ enc = Idle /\ xr = Idle /\ dy = Idle /\ dr = Idle /\ pt = Idle
    /\ fx \in { [phase |-> "file", file |-> f] : f \in JFiles }

\* patch_launchd_jetsam(filepath)
JetsamPatch ==
    /\ fx.phase = "file"
    /\ fx' = [phase |-> "patched", file |-> fx.file,
              ret |-> patch_launchd_jetsam(fx.file).ret,
              words |-> patch_launchd_jetsam(fx.file).words]
    /\ UNCHANGED <<enc, xr, dy, pt, dr>>

JetsamNext == JetsamPatch

SpecJetsam == JetsamInit /\ [][JetsamNext]_vars

\* the claim's terms: a conditional branch within 0x300 bytes before the
\* reference whose target, inside __text, starts a return block
StartsReturnBlock(f, t) ==
    \E i \in 0 .. 7 :
       /\ t + 4 * i < f.text_foff + f.text_size
       /\ JWord(f, t + 4 * i).mn \in {"ret", "retab"}
       /\ \A j \in 0 .. i - 1 :
             JWord(f, t + 4 * j).mn \notin {"b", "bl", "br", "blr", "ret", "retab"}

Qualifying(f, r) ==
    { o \in DOMAIN f.words :
        /\ o < r /\ o >= r - 768 /\ o >= f.text_foff /\ (r - o) % 4 = 0
        /\ f.words[o].mn \in cond_mnemonics
        /\ f.words[o].imm >= f.text_foff
        /\ f.words[o].imm < f.text_foff + f.text_size
        /\ StartsReturnBlock(f, f.words[o].imm) }

Changed(f, words) == { o \in DOMAIN f.words : words[o] # f.words[o] }

\* C27: patch_launchd_jetsam rewrites, for the first anchor that has one,
\* the earliest conditional branch within 0x300 bytes before the reference
\* whose target lies in __text and starts a return block, and only that
\* one, into an unconditional branch to the same target; with no such
\* branch for any anchor it writes nothing and returns False.
C27_EarliestReturnBranch ==
    fx # Idle /\ fx.phase = "patched" =>
      IF \A i \in 1 .. 3 :
            fx.file.refs[i] < 0 \/ Qualifying(fx.file, fx.file.refs[i]) = {}
      THEN ~fx.ret /\ fx.words = fx.file.words
      ELSE \E i \in 1 .. 3 :
             /\ fx.file.refs[i] >= 0 /\ Qualifying(fx.file, fx.file.refs[i]) # {}
             /\ \A h \in 1 .. i - 1 :
                   fx.file.refs[h] < 0
                     \/ Qualifying(fx.file, fx.file.refs[h]) = {}
             /\ fx.ret
             /\ Changed(fx.file, fx.words)
                  = {SetMin(Qualifying(fx.file, fx.file.refs[i]))}
             /\ \A o \in Changed(fx.file, fx.words) :
                   fx.words[o] = Insn("b", "asm", "", fx.file.words[o].imm)

\* two qualifying branches before the reference: the earlier one was
\* rewritten, the later one was left
C27_Witness ==
    /\ fx # Idle /\ fx.phase = "patched" /\ fx.ret
    /\ Cardinality(Qualifying(fx.file, JRef1)) >= 2
    /\ fx.file.refs[2] = JRef1
    /\ Changed(fx.file, fx.words) = {SetMin(Qualifying(fx.file, JRef1))}

\* ---------------------------------------------------------------------
\* patch_syscallmask_apply_to_proc: the redirect of the first BL
\* ---------------------------------------------------------------------

\* the first BL of the window the redirect loop scans
FirstBl(img, func_off) ==
    SetMin(RawSites(img, func_off,
                    IF func_off + 256 < _find_func_end(img, func_off, 512)
                    THEN func_off + 256
                    ELSE _find_func_end(img, func_off, 512), {"bl"}))

\* the patches a run of the rule registered
PatchesOf(st, k) ==
    { st.patches[n] : n \in st.log[k].before + 1 .. st.log[k].after }

SyscallmaskRuns(st) ==
    { k \in 1 .. Len(st.log) :
        st.log[k].rule = "patch_syscallmask_apply_to_proc" /\ st.log[k].ret }

\* the cave of the rule's run
SyscallmaskCave(st) ==
    (CHOOSE c \in { st.caves[i] : i \in 1 .. Len(st.caves) } :
        c.rule = "patch_syscallmask_apply_to_proc").off

\* C28: when patch_syscallmask_apply_to_proc returns True, its patches
\* hold the "mov x17, x0" at the word before the first BL of the function
\* and, at that BL, a branch to cave + 40; the mov is not below the start
\* of the function.
C28_MovComesWithBranch ==
    (pt # Idle /\ pt.kind = "kernel" /\ pt.phase = "applied") =>
      \A k \in SyscallmaskRuns(pt) :
         \E bl \in {FirstBl(pt.img, FuncOff(pt.img, "_syscallmask_apply_to_proc"))} :
            /\ [off |-> bl - 4, words |-> <<Insn("mov", "x17", "x0", 0)>>]
                 \in PatchesOf(pt, k)
            /\ \E q \in PatchesOf(pt, k) :
                  /\ q.off = bl /\ Len(q.words) = 1 /\ q.words[1].mn = "b"
                  /\ bl + 4 * SignExtend26(q.words[1].imm)
                       = SyscallmaskCave(pt) + 40
            /\ bl - 4 >= FuncOff(pt.img, "_syscallmask_apply_to_proc")

\* ---------------------------------------------------------------------
\* the candidate count of the two force-true rules
\* ---------------------------------------------------------------------

\* the distinct BL sites among the candidates
DistinctSites(cands) == { c[2] : c \in cands }

\* the runs of a rule in the log
RunsOf(st, rule) == { k \in 1 .. Len(st.log) : st.log[k].rule = rule }

\* C29: the count patch_get_task_allow_force_true and
\* patch_debugger_entitlement_force_true compare with 1 is the number of
\* distinct matching BL sites: with one site, also one inside the windows
\* of two references, the rule patches the site and returns True.
C29_SiteCountedOnce ==
    (pt # Idle /\ pt.kind = "txm" /\ pt.phase = "applied") =>
      /\ \A k \in RunsOf(pt, "patch_get_task_allow_force_true") :
            Cardinality(DistinctSites(GetTaskAllowCands(pt.img))) = 1 =>
               /\ pt.log[k].ret
               /\ pt.log[k].after = pt.log[k].before + 1
               /\ pt.patches[pt.log[k].after].off
                    \in DistinctSites(GetTaskAllowCands(pt.img))
      /\ \A k \in RunsOf(pt, "patch_debugger_entitlement_force_true") :
            Cardinality(DistinctSites(DebuggerCands(pt.img, pt.img.size - 4)))
              = 1 =>
               /\ pt.log[k].ret
               /\ pt.log[k].after = pt.log[k].before + 1
               /\ pt.patches[pt.log[k].after].off
                    \in DistinctSites(DebuggerCands(pt.img, pt.img.size - 4))

\* ---------------------------------------------------------------------
\* what the symbol map holds
\* ---------------------------------------------------------------------

\* the nlist entries of all the tables
AllEntries(tables) ==
    UNION { { tables[t][i] : i \in 1 .. Len(tables[t]) } :
              t \in 1 .. Len(tables) }

\* C30: after _build_symbol_table every entry of the map comes from an
\* nlist entry with (n_type & 0x0E) = 0x0E, n_value # 0 and a name of at
\* most 512 bytes, and its file offset n_value - base_va lies in [0, size);
\* _resolve_symbol returns -1 for a name that is not in the map, and an
\* offset inside the buffer otherwise.
C30_SymbolMapWellFormed ==
    fx # Idle /\ fx.pc \in {"built", "resolved"} =>
      /\ \A n \in DOMAIN fx.symbols :
            /\ fx.symbols[n] >= 0 /\ fx.symbols[n] < SymSize
            /\ \E e \in AllEntries(fx.tables) :
                  /\ e.name = n
                  /\ (e.n_type \div 2) % 8 = 7
                  /\ e.n_value # 0
                  /\ e.name_len >= 0 /\ e.name_len <= 512
                  /\ fx.symbols[n] = e.n_value - SymBaseVa
      /\ fx.pc = "resolved" =>
            IF fx.name \in DOMAIN fx.symbols
            THEN fx.foff = fx.symbols[fx.name]
            ELSE fx.foff = -1

\* a table with an entry whose value is beyond the image and a table with
\* a well-formed entry of another name: the first name resolves to -1
C30_Witness ==
    /\ fx # Idle /\ fx.pc = "resolved"
    /\ fx.tables[1][1].n_value = SymBaseVa + SymSize
    /\ fx.tables[1][1].name = fx.name
    /\ DefinedType(fx.tables[1][1].n_type)
    /\ fx.tables[2][1].name # fx.name
    /\ DOMAIN fx.symbols = {fx.tables[2][1].name}
    /\ fx.foff = -1

====
